---- MODULE Spec2Model ----
(***************************************************************************)
(* Verification model of the safety / judging / aggregation core:          *)
(*   - OutputGuardrail  (src/src/guardrails/output_guardrail.py)           *)
(*   - InputGuardrail   (src/src/guardrails/input_guardrail.py)            *)
(*   - SafetyManager    (src/src/guardrails/safety_manager.py)             *)
(*   - AutoGenOrchestrator.process_query (src/src/autogen_orchestrator.py) *)
(*   - SystemEvaluator  (src/src/evaluation/evaluator.py)                  *)
(*   - LLMJudge         (src/src/evaluation/judge.py)                      *)
(*   - the UI session's event tracking (src/src/ui/cli.py)                 *)
(*                                                                         *)
(* A text is a sequence of lexical units ("atoms"): a word, a phrase, an   *)
(* e-mail address, a phone number, a redaction marker.  A regular          *)
(* expression or keyword of the source is modelled by the set of atoms it  *)
(* matches and by what re.findall returns for such a match.  Lengths are   *)
(* counted in characters (AtomLen).                                        *)
(***************************************************************************)
EXTENDS Integers, Sequences, FiniteSets, TLC

VARIABLES
    \* ---- OutputGuardrail.validate, called as a function
    outText,        \* the response handed to validate
    outSources,     \* the sources handed to validate
    outDone,        \* TRUE once validate has returned for (outText, outSources)
    outResult,      \* the dictionary validate returned
    outAgainDone,   \* TRUE once validate has returned for the sanitized text
    outAgain,       \* the dictionary validate returned for the sanitized text
    \* ---- InputGuardrail.validate, called as a function
    inText,         \* the query handed to validate
    inDone,         \* TRUE once validate has returned for inText
    inResult,       \* the dictionary validate returned
    \* ---- SafetyManager (one instance, owned by one AutoGenOrchestrator)
    enabled,        \* self.enabled
    log_events,     \* self.log_events
    on_violation,   \* self.on_violation: [action, message]
    listObjs,       \* the list objects self.safety_events has been bound to
    safety_events,  \* self.safety_events: which of listObjs it is bound to now
    \* ---- AutoGenOrchestrator.process_query
    pc,             \* "idle", or the step the running call is at
    the_query,      \* the query of the running (or last) call
    input_safety,   \* its input_safety
    pipeline,       \* what _process_query_async returned to it
    teamRuns,       \* how often self.team.run was invoked for it
    result,         \* what the last finished call returned
    nQueries,       \* calls of process_query so far
    \* ---- callers of the SafetyManager's read API
    handed,         \* the list get_safety_events last returned, and its content then
    stats,          \* what get_safety_stats last returned
    \* ---- SystemEvaluator.evaluate_system
    testCases,      \* the test queries _load_test_queries returns
    ev_pc,          \* "idle", "loop" (inside the for loop), "done" (returned)
    ev_i,           \* how many test cases the loop has handled
    results,        \* self.results
    errors,         \* self.errors
    report,         \* what evaluate_system returned
    thrown,         \* how many of the handled cases had the pipeline raise
    ev_runs,        \* calls of evaluate_system so far, the one under way included
    \* ---- LLMJudge._parse_judgment, called as a function
    judgment,       \* the text the judge model returned
    parseDone,      \* TRUE once _parse_judgment has returned for it
    parsed,         \* the (score, reasoning) it returned
    \* ---- LLMJudge.evaluate_multi_perspective
    criteria,       \* self.criteria
    jd_pc,          \* "academic", "practical" (inside evaluate), "combine", "done", "raised"
    criterion_scores, \* results["criterion_scores"] of each perspective, in insertion order
    weighted_score, \* weighted_score of the evaluate call under way
    overall_scores, \* results["overall_score"] of each finished evaluate call
    jd_calls,       \* the external calls made so far and how each ended
    jd_result,      \* what evaluate_multi_perspective returned
    \* ---- threads calling check_input_safety on the one SafetyManager
    th_pc,          \* per thread: "idle", "checking", "appending", "done"
    th_query,       \* per thread: the query it checks
    th_ref,         \* per thread: the list object it loaded from self.safety_events
    \* ---- a UI session (CLI.run, or the web app's session state)
    all_safety_events,   \* self.all_safety_events
    safety_events_count, \* self.safety_events_count
    query_count          \* self.query_count: queries the session has processed

outVars == <<outText, outSources, outDone, outResult, outAgainDone, outAgain>>
inVars == <<inText, inDone, inResult>>
configVars == <<enabled, log_events, on_violation>>
logVars == <<listObjs, safety_events>>
callVars == <<pc, the_query, input_safety, pipeline, teamRuns, result, nQueries>>
readVars == <<handed, stats>>
coordVars == <<configVars, logVars, callVars, readVars>>
evalVars == <<testCases, ev_pc, ev_i, results, errors, report, thrown, ev_runs>>
parseVars == <<judgment, parseDone, parsed>>
judgeVars == <<criteria, jd_pc, criterion_scores, weighted_score, overall_scores,
               jd_calls, jd_result>>
threadVars == <<th_pc, th_query, th_ref>>
uiVars == <<all_safety_events, safety_events_count, query_count>>
vars == <<outVars, inVars, coordVars, evalVars, parseVars, judgeVars, threadVars, uiVars>>

-----------------------------------------------------------------------------
(* Generic sequence helpers (Python list / str primitives).                *)

\* s[:n]
Take(s, n) == SubSeq(s, 1, IF n < Len(s) THEN n ELSE Len(s))

\* s[n:] with n counted from 0
Drop(s, n) == IF n >= Len(s) THEN <<>> ELSE SubSeq(s, n + 1, Len(s))

\* s.startswith(p)
StartsWith(s, p) == Len(p) <= Len(s) /\ SubSeq(s, 1, Len(p)) = p

\* `p in s` for strings: p occurs as a contiguous run of s
Contains(s, p) == \E i \in 0..(Len(s) - Len(p)) : SubSeq(s, i + 1, i + Len(p)) = p

\* p is a prefix of s
IsPrefix(p, s) == Len(p) <= Len(s) /\ SubSeq(s, 1, Len(p)) = p

\* all sequences over S of length at most n
SeqUpTo(S, n) == UNION {[1..k -> S] : k \in 0..n}

\* An atom written without blanks inside can still hold a match as a part of
\* it: the parts of such an atom, in order (any other atom is one part).
Pieces(atom) ==
    CASE atom = "fax+1-555-123-4567" -> <<"fax", "+1-", "555-123-4567">>
      [] atom = "fax[REDACTED PHONE_US]555-123-4567" ->
             <<"fax", "[REDACTED PHONE_US]", "555-123-4567">>
      [] OTHER -> <<atom>>

\* the parts written one after the other
RECURSIVE Glue(_)
Glue(pieces) == IF pieces = <<>> THEN "" ELSE Head(pieces) \o Glue(Tail(pieces))

\* str.replace inside one atom: a run of parts that spells `old` becomes `new`
RECURSIVE ReplacePieces(_, _, _)
ReplacePieces(pieces, old, new) ==
    IF pieces = <<>> THEN <<>>
    ELSE IF \E k \in 1..Len(pieces) : Glue(SubSeq(pieces, 1, k)) = old
         THEN LET k == CHOOSE k \in 1..Len(pieces) : Glue(SubSeq(pieces, 1, k)) = old
              IN <<new>> \o ReplacePieces(Drop(pieces, k), old, new)
         ELSE <<Head(pieces)>> \o ReplacePieces(Tail(pieces), old, new)

ReplaceInAtom(atom, old, new) ==
    IF Len(old) = 1 /\ Len(new) = 1
    THEN Glue(ReplacePieces(Pieces(atom), old[1], new[1]))
    ELSE atom

RECURSIVE ReplaceNonEmpty(_, _, _)
ReplaceNonEmpty(s, old, new) ==
    IF s = <<>> THEN <<>>
    ELSE IF StartsWith(s, old) THEN new \o ReplaceNonEmpty(Drop(s, Len(old)), old, new)
    ELSE <<ReplaceInAtom(Head(s), old, new)>> \o ReplaceNonEmpty(Tail(s), old, new)

\* What an empty-pattern replace makes of one atom: `new` before each of its
\* characters.  The `new` before the first character is written as an atom
\* of its own (Interleave), the others are inside this atom, which no
\* longer holds the original atom as a substring.
Laced(atom, new) ==
    IF new = <<>> THEN atom
    ELSE "<" \o atom \o ", " \o new[1] \o " before every character>"

RECURSIVE Interleave(_, _)
Interleave(s, new) ==
    IF s = <<>> THEN new ELSE new \o <<Laced(Head(s), new)>> \o Interleave(Tail(s), new)

\* str.replace(old, new): every non-overlapping occurrence of old, left to
\* right; an empty old matches before every character and at the end.
Replace(s, old, new) ==
    IF old = <<>> THEN Interleave(s, new) ELSE ReplaceNonEmpty(s, old, new)

-----------------------------------------------------------------------------
(* Texts.  A text stands for its atoms joined by single spaces; the empty  *)
(* atom and the atom of blanks are whitespace.                             *)

LongWord == "<2001 letters>"
LongBlank == "<2001 blanks>"
LongParagraph == "<600 letters>"

WhitespaceAtoms == {"", LongBlank}

\* len(atom)
AtomLen(atom) ==
    CASE atom = "" -> 0
      [] atom = "." -> 1
      [] atom = "hi" -> 2
      [] atom \in {"Kill", "hack", "sudo"} -> 4
      [] atom \in {"design", "poison", "(2020)"} -> 6
      [] atom \in {"results", "or call"} -> 7
      [] atom = "Research" -> 8
      [] atom \in {"jailbreak", "Obviously", "127.0.0.1"} -> 9
      [] atom = "researcher" -> 10
      [] atom \in {"u1@corp.org", "u2@corp.org", "u3@corp.org", "u4@corp.org",
                   "u5@corp.org", "u6@corp.org", "123-45-6789"} -> 11
      [] atom = "555-123-4567" -> 12
      [] atom = "me@example.com" -> 14
      [] atom \in {"user@company.com", "[REDACTED EMAIL]"} -> 16
      [] atom \in {"Contact support at", "fax+1-555-123-4567"} -> 18
      [] atom = "[REDACTED PHONE_US]" -> 19
      [] atom = "ignore previous instructions" -> 28
      [] atom = "fax[REDACTED PHONE_US]555-123-4567" -> 34
      [] atom = LongParagraph -> 600
      [] atom \in {LongWord, LongBlank} -> 2001

RECURSIVE SumLen(_)
SumLen(text) == IF text = <<>> THEN 0 ELSE AtomLen(Head(text)) + SumLen(Tail(text))

\* len(text): the atoms and the separators between them
CharLen(text) == IF text = <<>> THEN 0 ELSE SumLen(text) + (Len(text) - 1)

-----------------------------------------------------------------------------
(* OutputGuardrail                                                         *)

\* self.pii_patterns, in dictionary (insertion) order
PiiTypes == <<"email", "phone_us", "phone_intl", "ssn", "credit_card", "ip_address">>

\* atoms matched by r'\b[A-Za-z0-9._%+-]+@[A-Za-z0-9.-]+\.[A-Z|a-z]{2,}\b'
EmailAtoms == {"user@company.com", "me@example.com",
               "u1@corp.org", "u2@corp.org", "u3@corp.org",
               "u4@corp.org", "u5@corp.org", "u6@corp.org"}
\* atoms matched by r'\b(\+1[-.\s]?)?\(?\d{3}\)?[-.\s]?\d{3}[-.\s]?\d{4}\b'
PhoneUsAtoms == {"555-123-4567", "123-456-7890", "fax+1-555-123-4567",
                 "fax[REDACTED PHONE_US]555-123-4567"}
\* r'\b\+\d{1,3}[-.\s]?\d{1,14}[-.\s]?\d{1,14}\b' needs a word character
\* right before the '+'
PhoneIntlAtoms == {"fax+1-555-123-4567"}
\* atoms matched by r'\b\d{3}-\d{2}-\d{4}\b'
SsnAtoms == {"123-45-6789"}
\* atoms matched by r'\b(?:\d{4}[-\s]?){3}\d{4}\b'
CreditCardAtoms == {"1234 5678 9012 3456"}
\* atoms matched by r'\b(?:\d{1,3}\.){3}\d{1,3}\b'
IpAtoms == {"8.8.8.8", "127.0.0.1"}

PiiAtoms(pii_type) ==
    CASE pii_type = "email" -> EmailAtoms
      [] pii_type = "phone_us" -> PhoneUsAtoms
      [] pii_type = "phone_intl" -> PhoneIntlAtoms
      [] pii_type = "ssn" -> SsnAtoms
      [] pii_type = "credit_card" -> CreditCardAtoms
      [] pii_type = "ip_address" -> IpAtoms

\* What pattern.findall yields for one match of the pattern on `atom`: the
\* whole match when the pattern has no capturing group, the text of group 1
\* when it has one.  Only phone_us has a capturing group, (\+1[-.\s]?)?, and
\* it is empty for a number without a "+1" prefix (the prefix needs a word
\* character right before it).
FindallItem(pii_type, atom) ==
    CASE pii_type = "phone_us" ->
             IF atom = "fax+1-555-123-4567" THEN <<"+1-">> ELSE <<>>
      [] pii_type = "phone_intl" /\ atom = "fax+1-555-123-4567" -> <<"+1-555-123-4567">>
      [] OTHER -> <<atom>>

\* pattern.findall(text): one item per match, in text order
RECURSIVE Findall(_, _)
Findall(pii_type, text) ==
    IF text = <<>> THEN <<>>
    ELSE (IF Head(text) \in PiiAtoms(pii_type)
          THEN <<FindallItem(pii_type, Head(text))>> ELSE <<>>)
         \o Findall(pii_type, Tail(text))

\* the placeholder values _filter_pii_false_positives skips
PlaceholderEmails == {<<"me@example.com">>}
PlaceholderPhones == {<<"123-456-7890">>, <<"000-000-0000">>, <<"111-111-1111">>}
PlaceholderIps == {<<"127.0.0.1">>, <<"0.0.0.0">>, <<"192.168.1.1">>, <<"10.0.0.1">>}

IsFalsePositive(pii_type, match) ==
    \/ pii_type = "email" /\ match \in PlaceholderEmails
    \/ pii_type = "phone_us" /\ match \in PlaceholderPhones
    \/ pii_type = "ip_address" /\ match \in PlaceholderIps

_filter_pii_false_positives(pii_type, matches) ==
    SelectSeq(matches, LAMBDA m : ~IsFalsePositive(pii_type, m))

\* filtered_matches[:5]
MatchesShown == 5

PiiViolation(pii_type, filtered) ==
    [validator |-> "pii", severity |-> "high", pii_type |-> pii_type,
     matches |-> Take(filtered, MatchesShown), count |-> Len(filtered)]

RECURSIVE PiiScan(_, _)
PiiScan(types, text) ==
    IF types = <<>> THEN <<>>
    ELSE LET filtered == _filter_pii_false_positives(Head(types), Findall(Head(types), text))
         IN (IF filtered # <<>> THEN <<PiiViolation(Head(types), filtered)>> ELSE <<>>)
            \o PiiScan(Tail(types), text)

_check_pii(text) == PiiScan(PiiTypes, text)

\* text.lower(), atom by atom
LowerAtom(atom) ==
    CASE atom = "Obviously" -> "obviously"
      [] atom = "How to hack" -> "how to hack"
      [] atom = "Kill" -> "kill"
      [] atom = "Research" -> "research"
      [] OTHER -> atom

\* self.harmful_output_keywords, in list order
harmful_output_keywords ==
    <<"how to hack", "how to steal", "how to attack", "step-by-step guide to",
      "instructions for creating", "bomb making", "weapon construction",
      "poison", "lethal dose", "inferior race", "lesser humans",
      "you should hurt", "harm yourself">>

\* `keyword in atom` (substring) for the lower-cased atoms of the vocabulary
SubstringOfAtom(keyword, atom) ==
    \/ keyword = atom
    \/ keyword = "poison" /\ atom = "poisonous"
    \/ keyword = "research" /\ atom = "researcher"

TextHasSubstring(keyword, text) ==
    \E i \in 1..Len(text) : SubstringOfAtom(keyword, LowerAtom(text[i]))

IndicatorsShown == 3

_check_harmful_content(text) ==
    LET found_harmful == SelectSeq(harmful_output_keywords,
                                   LAMBDA k : TextHasSubstring(k, text))
    IN IF found_harmful # <<>>
       THEN <<[validator |-> "harmful_content", severity |-> "high", pii_type |-> "none",
               matches |-> Take(found_harmful, IndicatorsShown), count |-> 0]>>
       ELSE <<>>

\* self.bias_indicators (compiled with re.IGNORECASE): the lower-cased atoms
\* each pattern matches
BiasAtoms == <<{"all users are"}, {"typically older"}, {"obviously", "everyone knows"}>>

RECURSIVE BiasFound(_, _)
BiasFound(patterns, text) ==
    IF patterns = <<>> THEN <<>>
    ELSE SelectSeq(text, LAMBDA a : LowerAtom(a) \in Head(patterns))
         \o BiasFound(Tail(patterns), text)

_check_bias(text) ==
    LET bias_found == BiasFound(BiasAtoms, text)
    IN IF bias_found # <<>>
       THEN <<[validator |-> "bias", severity |-> "low", pii_type |-> "none",
               matches |-> Take(bias_found, IndicatorsShown), count |-> 0]>>
       ELSE <<>>

\* atoms matched by one of citation_patterns (re.IGNORECASE)
CitationAtoms == {"[source:", "[citation:", "(2020)", "according to", "as stated in",
                  "et al.", "references:"}

_check_citations(response, sources) ==
    LET has_citations == \E i \in 1..Len(response) : LowerAtom(response[i]) \in CitationAtoms
    IN IF sources # <<>> /\ ~has_citations
       THEN <<[validator |-> "citations", severity |-> "low", pii_type |-> "none",
               matches |-> <<>>, count |-> Len(sources)]>>
       ELSE <<>>

\* f"[REDACTED {pii_type.upper()}]"
RedactionMarker(pii_type) ==
    CASE pii_type = "email" -> "[REDACTED EMAIL]"
      [] pii_type = "phone_us" -> "[REDACTED PHONE_US]"
      [] pii_type = "phone_intl" -> "[REDACTED PHONE_INTL]"
      [] pii_type = "ssn" -> "[REDACTED SSN]"
      [] pii_type = "credit_card" -> "[REDACTED CREDIT_CARD]"
      [] pii_type = "ip_address" -> "[REDACTED IP_ADDRESS]"

RedactionMarkers == {RedactionMarker(PiiTypes[i]) : i \in 1..Len(PiiTypes)}

RECURSIVE RedactMatches(_, _, _)
RedactMatches(sanitized, matches, pii_type) ==
    IF matches = <<>> THEN sanitized
    ELSE RedactMatches(Replace(sanitized, Head(matches), <<RedactionMarker(pii_type)>>),
                       Tail(matches), pii_type)

RECURSIVE _sanitize(_, _)
_sanitize(text, violations) ==
    IF violations = <<>> THEN text
    ELSE LET v == Head(violations)
         IN _sanitize(IF v.validator = "pii"
                      THEN RedactMatches(text, v.matches, v.pii_type)
                      ELSE text,
                      Tail(violations))

HighViolations(violations) == SelectSeq(violations, LAMBDA v : v.severity = "high")

\* mutant: the input policy (any violation blocks) applied to output
OutputValid_AnyViolationBlocks(violations) == Len(violations) = 0

OutputValid(violations) == Len(HighViolations(violations)) = 0

\* OutputGuardrail.validate(response, sources)
ValidateOutput(response, sources) ==
    LET violations == _check_pii(response)
                      \o _check_harmful_content(response)
                      \o _check_bias(response)
                      \o (IF sources # <<>> THEN _check_citations(response, sources) ELSE <<>>)
    IN [valid |-> OutputValid(violations),
        violations |-> violations,
        sanitized_output |-> _sanitize(response, violations)]


-----------------------------------------------------------------------------
(* InputGuardrail                                                          *)

\* config.get("min_query_length", 5), config.get("max_query_length", 2000)
min_query_length == 5
max_query_length == 2000

\* text.strip(): leading and trailing empty atoms go, with their separators
RECURSIVE LStrip(_)
LStrip(text) ==
    IF text # <<>> /\ Head(text) \in WhitespaceAtoms THEN LStrip(Tail(text)) ELSE text

RECURSIVE RStrip(_)
RStrip(text) ==
    IF text # <<>> /\ text[Len(text)] \in WhitespaceAtoms
    THEN RStrip(SubSeq(text, 1, Len(text) - 1)) ELSE text

Strip(text) == RStrip(LStrip(text))

InputViolation(validator, severity, detail) ==
    [validator |-> validator, severity |-> severity, pii_type |-> "none",
     matches |-> detail, count |-> 0]

\* mutant: both bounds are tested on the stripped text
_check_length_BothStripped(text) ==
    (IF CharLen(Strip(text)) < min_query_length
     THEN <<InputViolation("length", "low", <<>>)>> ELSE <<>>)
    \o (IF CharLen(Strip(text)) > max_query_length
        THEN <<InputViolation("length", "medium", <<>>)>> ELSE <<>>)

_check_length(text) ==
    (IF CharLen(Strip(text)) < min_query_length
     THEN <<InputViolation("length", "low", <<>>)>> ELSE <<>>)
    \o (IF CharLen(text) > max_query_length
        THEN <<InputViolation("length", "medium", <<>>)>> ELSE <<>>)

\* self.injection_patterns, in list order
injection_patterns ==
    <<"ignore\\s+(all\\s+)?(previous|prior|above)\\s+(instructions?|prompts?|rules?)",
      "disregard\\s+(all\\s+)?(previous|prior|above)",
      "forget\\s+(everything|all|previous)",
      "override\\s+(system|previous|safety)",
      "bypass\\s+(safety|security|filter)",
      "you\\s+are\\s+now\\s+(a|an)",
      "pretend\\s+(to\\s+be|you\\s+are)",
      "act\\s+as\\s+(if|a|an)",
      "roleplay\\s+as",
      "from\\s+now\\s+on\\s+you",
      "(show|reveal|display|print|output)\\s+(me\\s+)?(your|the|system)\\s+(prompt|instructions)",
      "what\\s+(are|is)\\s+your\\s+(system\\s+)?(prompt|instructions|rules)",
      "jailbreak",
      "dan\\s+mode",
      "developer\\s+mode",
      "sudo",
      "admin\\s+mode",
      "<\\|.*?\\|>",
      "\\[INST\\]",
      "\\[/INST\\]",
      "<<SYS>>",
      "<</SYS>>">>

\* original_pattern[:50] + "..." if len(original_pattern) > 50 else original_pattern
PatternLabel(pattern) ==
    CASE pattern = injection_patterns[1] ->
             "ignore\\s+(all\\s+)?(previous|prior|above)\\s+(instru..."
      [] pattern = injection_patterns[11] ->
             "(show|reveal|display|print|output)\\s+(me\\s+)?(your..."
      [] pattern = injection_patterns[12] ->
             "what\\s+(are|is)\\s+your\\s+(system\\s+)?(prompt|instr..."
      [] OTHER -> pattern

\* the lower-cased atoms of the vocabulary each compiled pattern matches
\* (re.IGNORECASE); a pattern not listed matches no atom of the vocabulary
InjectionAtoms(pattern) ==
    CASE pattern = injection_patterns[1] -> {"ignore previous instructions"}
      [] pattern = injection_patterns[5] -> {"bypass safety"}
      [] pattern = injection_patterns[11] -> {"show your prompt"}
      [] pattern = injection_patterns[13] -> {"jailbreak"}
      [] pattern = injection_patterns[16] -> {"sudo"}
      [] OTHER -> {}

PatternMatches(pattern, text) ==
    \E i \in 1..Len(text) : LowerAtom(text[i]) \in InjectionAtoms(pattern)

\* mutant: the loop has no break, every matching pattern is reported
RECURSIVE InjectionScan_NoBreak(_, _)
InjectionScan_NoBreak(patterns, text) ==
    IF patterns = <<>> THEN <<>>
    ELSE (IF PatternMatches(Head(patterns), text)
          THEN <<InputViolation("prompt_injection", "high", <<PatternLabel(Head(patterns))>>)>>
          ELSE <<>>)
         \o InjectionScan_NoBreak(Tail(patterns), text)

\* the loop of _check_prompt_injection over the patterns, left at the first match
RECURSIVE InjectionScan(_, _)
InjectionScan(patterns, text) ==
    IF patterns = <<>> THEN <<>>
    ELSE IF PatternMatches(Head(patterns), text)
         THEN <<InputViolation("prompt_injection", "high", <<PatternLabel(Head(patterns))>>)>>
         ELSE InjectionScan(Tail(patterns), text)

_check_prompt_injection(text) == InjectionScan(injection_patterns, text)

\* self.harmful_keywords, in list order
harmful_keywords ==
    <<"kill", "murder", "attack", "hurt", "harm", "destroy",
      "weapon", "bomb", "explosive", "assassinate",
      "hack", "exploit", "crack", "steal", "phishing",
      "malware", "virus", "ransomware", "ddos",
      "hate", "racist", "sexist", "discriminate",
      "suicide method", "how to hurt myself">>

\* re.search(r'\b' + keyword + r'\b', text_lower): the keyword is an atom of the text
TextHasWord(keyword, text) ==
    \E i \in 1..Len(text) : LowerAtom(text[i]) = keyword

ResearchContextMarkers == <<"research", "study", "paper", "literature", "academic">>

KeywordsShown == 5

\* mutant: a research context excuses any number of keywords
_check_toxic_language_ContextExcusesAll(text) ==
    LET found_keywords == SelectSeq(harmful_keywords, LAMBDA k : TextHasWord(k, text))
        is_research_context ==
            \E j \in 1..Len(ResearchContextMarkers) :
                TextHasSubstring(ResearchContextMarkers[j], text)
    IN IF found_keywords = <<>> \/ is_research_context THEN <<>>
       ELSE <<InputViolation("toxic_language",
                             IF Len(found_keywords) > 1 THEN "high" ELSE "medium",
                             Take(found_keywords, KeywordsShown))>>

_check_toxic_language(text) ==
    LET found_keywords == SelectSeq(harmful_keywords, LAMBDA k : TextHasWord(k, text))
        is_research_context ==
            \E j \in 1..Len(ResearchContextMarkers) :
                TextHasSubstring(ResearchContextMarkers[j], text)
    IN IF found_keywords = <<>> THEN <<>>
       ELSE IF is_research_context /\ Len(found_keywords) = 1 THEN <<>>
       ELSE <<InputViolation("toxic_language",
                             IF Len(found_keywords) > 1 THEN "high" ELSE "medium",
                             Take(found_keywords, KeywordsShown))>>

\* self.research_keywords
research_keywords ==
    <<"hci", "human-computer", "human computer", "interaction",
      "user experience", "ux", "usability", "interface",
      "accessibility", "design", "user interface", "ui",
      "ergonomic", "cognitive", "perception", "attention",
      "research", "study", "paper", "literature", "review",
      "methodology", "experiment", "survey", "analysis",
      "theory", "framework", "model", "evaluation",
      "finding", "result", "conclusion", "abstract",
      "software", "application", "app", "website", "system",
      "technology", "computer", "digital", "mobile", "web",
      "ai", "machine learning", "data", "algorithm",
      "what is", "how does", "explain", "define", "compare",
      "difference", "relationship", "impact", "effect",
      "trend", "future", "best practice", "guideline">>

\* multi-word phrases by substring, single words by whole-word match
MultiWordKeywords ==
    {"human computer", "user experience", "user interface", "machine learning",
     "what is", "how does", "best practice"}

KeywordPresent(keyword, text) ==
    IF keyword \in MultiWordKeywords
    THEN TextHasSubstring(keyword, text)
    ELSE TextHasWord(keyword, text)

relevance_score(query) ==
    Len(SelectSeq(research_keywords, LAMBDA k : KeywordPresent(k, query)))

_check_relevance(query) ==
    IF relevance_score(query) = 0
    THEN <<InputViolation("relevance", "medium", <<>>)>>
    ELSE <<>>

InputValid(violations) == Len(violations) = 0

\* mutant: the checks short-circuit, later ones run only while none has failed
ValidateInput_ShortCircuit(query) ==
    LET violations ==
            IF _check_length(query) # <<>> THEN _check_length(query)
            ELSE IF _check_prompt_injection(query) # <<>> THEN _check_prompt_injection(query)
            ELSE IF _check_toxic_language(query) # <<>> THEN _check_toxic_language(query)
            ELSE _check_relevance(query)
    IN [valid |-> Len(violations) = 0,
        violations |-> violations,
        sanitized_input |-> query]

\* InputGuardrail.validate(query)
ValidateInput(query) ==
    LET violations == _check_length(query)
                      \o _check_prompt_injection(query)
                      \o _check_toxic_language(query)
                      \o _check_relevance(query)
    IN [valid |-> InputValid(violations),
        violations |-> violations,
        sanitized_input |-> query]


-----------------------------------------------------------------------------
(* OutputGuardrail.validate as a function of its arguments                 *)

MaxOutLen == 3

OutAtoms == {"results", "user@company.com", "me@example.com", "555-123-4567",
             "123-45-6789", "127.0.0.1", "poison", "Obviously", "(2020)",
             "[REDACTED EMAIL]"}

\* "Contact support at user@company.com or call 555-123-4567."
ContactText == <<"Contact support at", "user@company.com", "or call", "555-123-4567", ".">>

\* a number with its country prefix, written right after a word
FaxText == <<"fax+1-555-123-4567">>

\* a response naming six distinct addresses
SixEmailsText == <<"u1@corp.org", "u2@corp.org", "u3@corp.org",
                   "u4@corp.org", "u5@corp.org", "u6@corp.org">>

OutTexts == SeqUpTo(OutAtoms, MaxOutLen) \cup {ContactText, SixEmailsText, FaxText}

SourceLists == {<<>>, <<"source1">>}

NoOutResult == [valid |-> TRUE, violations |-> <<>>, sanitized_output |-> <<>>]

OutIdle ==
    /\ outText = <<>>
    /\ outSources = <<>>
    /\ outDone = FALSE
    /\ outResult = NoOutResult
    /\ outAgainDone = FALSE
    /\ outAgain = NoOutResult

OutInit ==
    /\ outText \in OutTexts
    /\ outSources \in SourceLists
    /\ outDone = FALSE
    /\ outResult = NoOutResult
    /\ outAgainDone = FALSE
    /\ outAgain = NoOutResult

OutValidate ==
    /\ ~outDone
    /\ outDone' = TRUE
    /\ outResult' = ValidateOutput(outText, outSources)
    /\ UNCHANGED <<outText, outSources, outAgainDone, outAgain>>

\* validate called on the sanitized text the first call returned
OutValidateSanitized ==
    /\ outDone
    /\ ~outAgainDone
    /\ outAgainDone' = TRUE
    /\ outAgain' = ValidateOutput(outResult.sanitized_output, outSources)
    /\ UNCHANGED <<outText, outSources, outDone, outResult>>

-----------------------------------------------------------------------------
(* InputGuardrail.validate as a function of its argument                   *)

MaxInLen == 3

InAtoms == {"", "hi", "design", "Research", "researcher", "Kill", "hack",
            "jailbreak", "sudo", "ignore previous instructions", LongWord, LongBlank}

InTexts == SeqUpTo(InAtoms, MaxInLen)

NoInResult == [valid |-> TRUE, violations |-> <<>>, sanitized_input |-> <<>>]

InIdle ==
    /\ inText = <<>>
    /\ inDone = FALSE
    /\ inResult = NoInResult

InInit ==
    /\ inText \in InTexts
    /\ inDone = FALSE
    /\ inResult = NoInResult

InValidate ==
    /\ ~inDone
    /\ inDone' = TRUE
    /\ inResult' = ValidateInput(inText)
    /\ UNCHANGED inText

-----------------------------------------------------------------------------
(* SafetyManager                                                           *)

\* s[:n] of a text whose cut may fall inside an atom: the text and how many
\* of its characters the slice keeps
Slice(text, n) ==
    [text |-> text, chars |-> IF CharLen(text) < n THEN CharLen(text) ELSE n]

WholeText(text) == Slice(text, CharLen(text))

PreviewChars == 100
EllipsisChars == 3
OutputContentChars == 500

\* content[:100] + "..." if len(content) > 100 else content
ContentPreview(content) ==
    [text |-> content.text,
     chars |-> IF content.chars > PreviewChars THEN PreviewChars ELSE content.chars,
     ellipsis |-> content.chars > PreviewChars]

PreviewLen(preview) == preview.chars + (IF preview.ellipsis THEN EllipsisChars ELSE 0)

CountSeverity(violations, severity) ==
    Len(SelectSeq(violations, LAMBDA v : v.severity = severity))

\* mutant: low-severity violations are left out of the summary
_get_severity_summary_SkipsLow(violations) ==
    [high |-> CountSeverity(violations, "high"),
     medium |-> CountSeverity(violations, "medium"),
     low |-> 0]

\* _get_severity_summary: the violations counted by severity
_get_severity_summary(violations) ==
    [high |-> CountSeverity(violations, "high"),
     medium |-> CountSeverity(violations, "medium"),
     low |-> CountSeverity(violations, "low")]

\* the event dictionary of _log_safety_event (its timestamp left out)
SafetyEvent(event_type, content, violations, is_safe) ==
    [type |-> event_type,
     safe |-> is_safe,
     violations |-> violations,
     content_preview |-> ContentPreview(content),
     violation_count |-> Len(violations),
     severity_summary |-> _get_severity_summary(violations)]

\* mutant: the log keeps only the latest event
AppendEvent_KeepLatest(events, event) == <<event>>

\* mutant: the event is appended twice
AppendEvent_Twice(events, event) == Append(Append(events, event), event)

\* self.safety_events.append(event)
AppendEvent(events, event) == Append(events, event)

\* the list self.safety_events is bound to
CurrentLog == listObjs[safety_events]

\* _log_safety_event: the effect on the list objects
_log_safety_event(event_type, content, violations, is_safe) ==
    [listObjs EXCEPT ![safety_events] =
        AppendEvent(@, SafetyEvent(event_type, content, violations, is_safe))]

\* mutant: every check is logged when logging is on
ShouldLog_EveryCheck(violations, is_safe) == log_events

\* mutant: only a failed check is logged
ShouldLog_OnlyBlocking(violations, is_safe) ==
    violations # <<>> /\ log_events /\ ~is_safe

\* `if violations and self.log_events:`
ShouldLog(violations, is_safe) == violations # <<>> /\ log_events

ViolationTypes(violations) == {violations[i].validator : i \in 1..Len(violations)}

InjectionRefusal == <<"Your request appears to contain prompt manipulation attempts. Please ask a legitimate research question.">>
ToxicRefusal == <<"Your request contains content that cannot be processed. Please rephrase your question appropriately.">>
LengthRefusal == <<"Your request is either too short or too long. Please provide a clear research question.">>
RelevanceRefusal == <<"This system is designed for research queries. Please ask a question related to research or academic topics.">>
RedirectMessage == <<"Your query has been flagged. Please rephrase your question.">>
DefaultPolicyMessage == <<"I cannot process this request due to safety policies.">>
DefaultEmptyRefusal == <<"Request cannot be processed.">>
DefaultOutputRefusal == <<"I cannot provide this response due to safety policies.">>
DefaultBlockedResponse == <<"Query blocked due to safety policies.">>
ConfiguredMessage == <<"<the configured on_violation message>">>

\* a dictionary key that is absent
Absent == <<"<absent>">>

\* dict.get(key, default)
GetOr(value, default) == IF value = Absent THEN default ELSE value

\* mutant: the first violation of the list selects the message
_get_refusal_message_FirstViolation(violations) ==
    IF violations = <<>> THEN GetOr(on_violation.message, DefaultEmptyRefusal)
    ELSE IF violations[1].validator = "prompt_injection" THEN InjectionRefusal
    ELSE IF violations[1].validator = "toxic_language" THEN ToxicRefusal
    ELSE IF violations[1].validator = "length" THEN LengthRefusal
    ELSE IF violations[1].validator = "relevance" THEN RelevanceRefusal
    ELSE GetOr(on_violation.message, DefaultPolicyMessage)

\* _get_refusal_message: the first of the four types found among the
\* violations' validators selects the message
_get_refusal_message(violations) ==
    IF violations = <<>> THEN GetOr(on_violation.message, DefaultEmptyRefusal)
    ELSE IF "prompt_injection" \in ViolationTypes(violations) THEN InjectionRefusal
    ELSE IF "toxic_language" \in ViolationTypes(violations) THEN ToxicRefusal
    ELSE IF "length" \in ViolationTypes(violations) THEN LengthRefusal
    ELSE IF "relevance" \in ViolationTypes(violations) THEN RelevanceRefusal
    ELSE GetOr(on_violation.message, DefaultPolicyMessage)

\* what check_input_safety(q) returns
InputCheckReturn(q) ==
    IF ~enabled
    THEN [present |-> TRUE, safe |-> TRUE, violations |-> <<>>,
          sanitized_query |-> q, message |-> Absent]
    ELSE LET r == ValidateInput(q)
         IN [present |-> TRUE,
             safe |-> r.valid,
             violations |-> r.violations,
             sanitized_query |-> r.sanitized_input,
             message |-> IF r.valid THEN Absent
                         ELSE IF on_violation.action = "refuse"
                              THEN _get_refusal_message(r.violations)
                         ELSE IF on_violation.action = "redirect" THEN RedirectMessage
                         ELSE Absent]

\* what check_input_safety(q) does to the list objects
InputCheckLog(q) ==
    IF enabled /\ ShouldLog(ValidateInput(q).violations, ValidateInput(q).valid)
    THEN _log_safety_event("input", WholeText(q), ValidateInput(q).violations,
                           ValidateInput(q).valid)
    ELSE listObjs

\* mutant: a refused response keeps the redacted text
RefusedResponse_KeepsSanitized(r) == r.sanitized_output

\* the response of a check that failed, by the configured action
RefusedResponse(r) ==
    IF on_violation.action = "sanitize" THEN r.sanitized_output
    ELSE IF on_violation.action = "refuse"
         THEN GetOr(on_violation.message, DefaultOutputRefusal)
    ELSE r.sanitized_output

\* what check_output_safety(response, sources) returns
OutputCheckReturn(response, sources) ==
    IF ~enabled
    THEN [present |-> TRUE, safe |-> TRUE, violations |-> <<>>, response |-> response]
    ELSE LET r == ValidateOutput(response, sources)
         IN [present |-> TRUE,
             safe |-> r.valid,
             violations |-> r.violations,
             response |-> IF r.valid THEN r.sanitized_output ELSE RefusedResponse(r)]

\* what check_output_safety(response, sources) does to the list objects
OutputCheckLog(response, sources) ==
    LET r == ValidateOutput(response, sources)
    IN IF enabled /\ ShouldLog(r.violations, r.valid)
       THEN _log_safety_event("output", Slice(response, OutputContentChars),
                              r.violations, r.valid)
       ELSE listObjs

RECURSIVE SumHigh(_)
SumHigh(events) ==
    IF events = <<>> THEN 0
    ELSE Head(events).severity_summary.high + SumHigh(Tail(events))

\* what get_safety_stats returns
SafetyStats(events) ==
    LET total == Len(events)
        violations == Len(SelectSeq(events, LAMBDA e : ~e.safe))
    IN [total_events |-> total,
        input_checks |-> Len(SelectSeq(events, LAMBDA e : e.type = "input")),
        output_checks |-> Len(SelectSeq(events, LAMBDA e : e.type = "output")),
        violations |-> violations,
        violation_rate |-> IF total > 0 THEN <<violations, total>> ELSE <<0, 1>>,
        high_severity_count |-> SumHigh(events),
        events_logged |-> log_events]

-----------------------------------------------------------------------------
(* AutoGenOrchestrator.process_query                                       *)

MaxQueries == 2
MaxResets == 1

NoCheck == [present |-> FALSE, safe |-> TRUE, violations |-> <<>>, response |-> <<>>]
NoInputCheck == [present |-> FALSE, safe |-> TRUE, violations |-> <<>>,
                 sanitized_query |-> <<>>, message |-> Absent]
NoPipeline == [raised |-> FALSE, response |-> <<>>, research_findings |-> <<>>,
               conversation_history |-> <<>>]
NoResult == [returned |-> FALSE, query |-> <<>>, response |-> <<>>,
             conversation_history |-> <<>>, blocked |-> FALSE, error |-> FALSE,
             output_sanitized |-> FALSE, input_check |-> NoInputCheck,
             output_check |-> NoCheck, events |-> 0]
NoStats == [total_events |-> 0, input_checks |-> 0, output_checks |-> 0,
            violations |-> 0, violation_rate |-> <<0, 1>>,
            high_severity_count |-> 0, events_logged |-> TRUE]
NothingHanded == [given |-> FALSE, ref |-> 0, snapshot |-> <<>>]

\* the queries callers send
Queries == {<<"Research", "design">>,
            <<"hi">>,
            <<"jailbreak", "design">>}

TeamMessages == <<"Planner", "Researcher", "Writer", "Critic">>

\* what self.team.run and the extraction after it can come to: an exception,
\* or a response with the Researcher's findings
PipelineOutcomes ==
    {[raised |-> TRUE, response |-> <<>>, research_findings |-> <<>>,
      conversation_history |-> <<>>],
     [raised |-> FALSE, response |-> <<"results", "(2020)">>,
      research_findings |-> <<"finding">>, conversation_history |-> TeamMessages],
     [raised |-> FALSE, response |-> <<"Obviously", "results">>,
      research_findings |-> <<"finding">>, conversation_history |-> TeamMessages],
     [raised |-> FALSE, response |-> <<"results", "user@company.com">>,
      research_findings |-> <<>>, conversation_history |-> TeamMessages],
     [raised |-> FALSE, response |-> <<LongParagraph, "poison", "Obviously">>,
      research_findings |-> <<>>, conversation_history |-> TeamMessages]}

\* mutant: only a high-severity input violation blocks
InputBlocks_OnlyHigh(check) ==
    \E i \in 1..Len(check.violations) : check.violations[i].severity = "high"

\* `if not input_safety["safe"]:`
InputBlocks(check) == ~check.safe

\* the dictionary returned for a blocked query
BlockedResult(q, check) ==
    [returned |-> TRUE, query |-> q,
     response |-> GetOr(check.message, DefaultBlockedResponse),
     conversation_history |-> <<>>, blocked |-> TRUE, error |-> FALSE,
     output_sanitized |-> FALSE, input_check |-> check, output_check |-> NoCheck,
     events |-> safety_events]

ErrorResponse == <<"An error occurred while processing your query: <error>">>

\* mutant: the handler checks the error text as if it were the response
ErrorOutputCheck_Checked(q) == OutputCheckReturn(<<"results">>, <<>>)

\* "output_check": None in the dictionary returned from the except branch
ErrorOutputCheck(q) == NoCheck

ErrorResult(q, check) ==
    [returned |-> TRUE, query |-> q, response |-> ErrorResponse,
     conversation_history |-> <<>>, blocked |-> FALSE, error |-> TRUE,
     output_sanitized |-> FALSE, input_check |-> check,
     output_check |-> ErrorOutputCheck(q), events |-> safety_events]

\* the dictionary returned after the output check
DeliveredResult(q, check, p, out) ==
    [returned |-> TRUE, query |-> q,
     response |-> IF ~out.safe THEN out.response ELSE p.response,
     conversation_history |-> p.conversation_history, blocked |-> FALSE,
     error |-> FALSE, output_sanitized |-> ~out.safe, input_check |-> check,
     output_check |-> out, events |-> safety_events]

\* a caller of get_safety_events receives the list object `ref`, which holds
\* `events` at that moment
Handed(ref, events) == [given |-> TRUE, ref |-> ref, snapshot |-> events]

\* process_query, step 1: the input check, and the return of a blocked query
PQ_CheckInput(q) ==
    /\ pc = "idle"
    /\ nQueries < MaxQueries
    /\ nQueries' = nQueries + 1
    /\ the_query' = q
    /\ teamRuns' = 0
    /\ pipeline' = NoPipeline
    /\ input_safety' = InputCheckReturn(q)
    /\ listObjs' = InputCheckLog(q)
    /\ IF InputBlocks(InputCheckReturn(q))
       THEN /\ result' = BlockedResult(q, InputCheckReturn(q))
            /\ pc' = "idle"
       ELSE /\ pc' = "RunningPipeline"
            /\ UNCHANGED result
    /\ UNCHANGED <<configVars, safety_events, readVars>>

\* process_query, the try block up to the output check: the team runs
PQ_RunPipeline(outcome) ==
    /\ pc = "RunningPipeline"
    /\ teamRuns' = teamRuns + 1
    /\ pipeline' = outcome
    /\ IF outcome.raised
       THEN /\ result' = ErrorResult(the_query, input_safety)
            /\ pc' = "idle"
       ELSE /\ pc' = "CheckingOutput"
            /\ UNCHANGED result
    /\ UNCHANGED <<configVars, logVars, the_query, input_safety, nQueries, readVars>>

\* process_query, step 2: the output check and the return
PQ_CheckOutput ==
    /\ pc = "CheckingOutput"
    /\ listObjs' = OutputCheckLog(pipeline.response, pipeline.research_findings)
    /\ result' = DeliveredResult(the_query, input_safety, pipeline,
                     OutputCheckReturn(pipeline.response, pipeline.research_findings))
    /\ pc' = "idle"
    /\ UNCHANGED <<configVars, safety_events, the_query, input_safety, pipeline,
                   teamRuns, nQueries, readVars>>

\* SafetyManager.get_safety_events(): returns self.safety_events itself
GetSafetyEvents ==
    /\ pc = "idle"
    /\ handed' = Handed(safety_events, CurrentLog)
    /\ handed' # handed
    /\ UNCHANGED <<configVars, logVars, callVars, stats>>

\* SafetyManager.get_safety_stats()
GetSafetyStats ==
    /\ pc = "idle"
    /\ stats' = SafetyStats(CurrentLog)
    /\ stats' # stats
    /\ UNCHANGED <<configVars, logVars, callVars, handed>>

\* SafetyManager.clear_events(): binds self.safety_events to a new empty list
ClearEvents ==
    /\ pc = "idle"
    /\ safety_events <= MaxResets
    /\ safety_events' = safety_events + 1
    /\ listObjs' = Append(listObjs, <<>>)
    /\ UNCHANGED <<configVars, callVars, readVars>>

Actions == {"refuse", "sanitize", "redirect"}

\* a SafetyManager as constructed from a configuration, and an idle orchestrator
CoordInit ==
    /\ enabled \in BOOLEAN
    /\ log_events \in BOOLEAN
    /\ on_violation \in [action : Actions, message : {ConfiguredMessage, Absent}]
    /\ listObjs = <<(<<>>)>>
    /\ safety_events = 1
    /\ pc = "idle"
    /\ the_query = <<>>
    /\ input_safety = NoInputCheck
    /\ pipeline = NoPipeline
    /\ teamRuns = 0
    /\ result = NoResult
    /\ nQueries = 0
    /\ handed = NothingHanded
    /\ stats = NoStats

\* check_input_safety called on its own, on any query text
CheckInputSafety ==
    /\ pc = "idle"
    /\ ~input_safety.present
    /\ input_safety' = InputCheckReturn(inText)
    /\ listObjs' = InputCheckLog(inText)
    /\ UNCHANGED <<configVars, safety_events, pc, the_query, pipeline, teamRuns,
                   result, nQueries, readVars, inVars>>

\* a SafetyManager as constructed, about to check some query text
CheckInputInit ==
    /\ inText \in InTexts
    /\ inDone = FALSE
    /\ inResult = NoInResult
    /\ enabled = TRUE
    /\ log_events = TRUE
    /\ on_violation \in [action : Actions, message : {ConfiguredMessage}]
    /\ listObjs = <<(<<>>)>>
    /\ safety_events = 1
    /\ pc = "idle"
    /\ the_query = <<>>
    /\ input_safety = NoInputCheck
    /\ pipeline = NoPipeline
    /\ teamRuns = 0
    /\ result = NoResult
    /\ nQueries = 0
    /\ handed = NothingHanded
    /\ stats = NoStats

CoordIdle ==
    /\ enabled = TRUE
    /\ log_events = TRUE
    /\ on_violation = [action |-> "refuse", message |-> ConfiguredMessage]
    /\ listObjs = <<(<<>>)>>
    /\ safety_events = 1
    /\ pc = "idle"
    /\ the_query = <<>>
    /\ input_safety = NoInputCheck
    /\ pipeline = NoPipeline
    /\ teamRuns = 0
    /\ result = NoResult
    /\ nQueries = 0
    /\ handed = NothingHanded
    /\ stats = NoStats

-----------------------------------------------------------------------------
(* A UI session (src/src/ui/cli.py, src/src/ui/streamlit_app.py): it hands  *)
(* one query at a time to process_query and tracks the safety events of    *)
(* the result.                                                             *)

\* the session sends its next query
UI_Send(q) ==
    /\ query_count = nQueries
    /\ PQ_CheckInput(q)
    /\ UNCHANGED uiVars

\* process_query has returned `result`: the session counts the query and
\* extends all_safety_events by result["safety"]["events"], which is the
\* list self.safety_events itself
UI_Track ==
    /\ pc = "idle"
    /\ query_count < nQueries
    /\ query_count' = query_count + 1
    /\ LET events == listObjs[result.events] IN
       IF events # <<>>
       THEN /\ all_safety_events' = all_safety_events \o events
            /\ safety_events_count' = Len(all_safety_events')
       ELSE UNCHANGED <<all_safety_events, safety_events_count>>
    /\ UNCHANGED coordVars

UIIdle ==
    /\ all_safety_events = <<>>
    /\ safety_events_count = 0
    /\ query_count = 0

-----------------------------------------------------------------------------
(* Threads that call check_input_safety on one SafetyManager.  validate is *)
(* pure; _log_safety_event builds its event locally, evaluates             *)
(* self.safety_events and calls append on that list object, which the      *)
(* interpreter runs as one step.                                           *)

MaxThreads == 2

Threads == 1..MaxThreads

\* the event a thread's check logs
ThreadEvent(q) ==
    SafetyEvent("input", WholeText(q), ValidateInput(q).violations,
                ValidateInput(q).valid)

\* a thread enters check_input_safety(q)
ThreadCall(t, q) ==
    /\ th_pc[t] = "idle"
    /\ th_pc' = [th_pc EXCEPT ![t] = "checking"]
    /\ th_query' = [th_query EXCEPT ![t] = q]
    /\ UNCHANGED <<th_ref, coordVars>>

\* validate has returned; `if violations and self.log_events:` is decided
\* and, when it holds, _log_safety_event evaluates self.safety_events
ThreadValidate(t) ==
    /\ th_pc[t] = "checking"
    /\ IF enabled /\ ShouldLog(ValidateInput(th_query[t]).violations,
                              ValidateInput(th_query[t]).valid)
       THEN /\ th_ref' = [th_ref EXCEPT ![t] = safety_events]
            /\ th_pc' = [th_pc EXCEPT ![t] = "appending"]
       ELSE /\ th_pc' = [th_pc EXCEPT ![t] = "done"]
            /\ UNCHANGED th_ref
    /\ UNCHANGED <<th_query, coordVars>>

\* self.safety_events.append(event) on the list object loaded, and the return
ThreadAppend(t) ==
    /\ th_pc[t] = "appending"
    /\ listObjs' = [listObjs EXCEPT ![th_ref[t]] =
                       AppendEvent(@, ThreadEvent(th_query[t]))]
    /\ th_pc' = [th_pc EXCEPT ![t] = "done"]
    /\ UNCHANGED <<th_query, th_ref, configVars, safety_events, callVars, readVars>>

\* a SafetyManager as constructed, shared by threads that have not called yet
ThreadInit ==
    /\ th_pc = [t \in Threads |-> "idle"]
    /\ th_query = [t \in Threads |-> <<>>]
    /\ th_ref = [t \in Threads |-> 1]
    /\ enabled \in BOOLEAN
    /\ log_events \in BOOLEAN
    /\ on_violation = [action |-> "refuse", message |-> ConfiguredMessage]
    /\ listObjs = <<(<<>>)>>
    /\ safety_events = 1
    /\ pc = "idle"
    /\ the_query = <<>>
    /\ input_safety = NoInputCheck
    /\ pipeline = NoPipeline
    /\ teamRuns = 0
    /\ result = NoResult
    /\ nQueries = 0
    /\ handed = NothingHanded
    /\ stats = NoStats

ThreadIdle ==
    /\ th_pc = [t \in Threads |-> "idle"]
    /\ th_query = [t \in Threads |-> <<>>]
    /\ th_ref = [t \in Threads |-> 1]

-----------------------------------------------------------------------------
(* SystemEvaluator, with an orchestrator and multi-perspective judging.    *)
(* Scores are in hundredths.                                               *)

MaxCases == 3

\* the overall scores a perspective's evaluation can come to
ScoreValues == {0, 50, 100}

Categories == <<"general", "hci", "methods">>

\* a test case; topics_are_strings is FALSE when expected_topics holds an
\* entry that is no string, which makes topic.lower() raise
TestCase(i, topics_are_strings) ==
    [id |-> i, query |-> i, category |-> Categories[((i - 1) % Len(Categories)) + 1],
     topics_are_strings |-> topics_are_strings]

TestCaseLists ==
    UNION {{[i \in 1..n |-> TestCase(i, flags[i])] : flags \in [1..n -> BOOLEAN]}
           : n \in 0..MaxCases}

\* judge.evaluate_multi_perspective: the combined score of two perspectives
MultiPerspectiveEvaluation(academic, practical) ==
    [combined_score |-> (academic * 50 + practical * 50) \div 100,
     perspectives |-> [academic |-> [overall_score |-> academic],
                       practical |-> [overall_score |-> practical]]]

NoEvaluation == MultiPerspectiveEvaluation(0, 0)

\* the response the orchestrator hands back: process_query catches what the
\* pipeline raises and returns the error text as the response
OrchestratorResponse(pipeline_raised) ==
    IF pipeline_raised THEN ErrorResponse ELSE <<"results", "(2020)">>

\* the dictionary _evaluate_query returns
EvaluatedResult(test_case, pipeline_raised, evaluation) ==
    [has_error |-> FALSE, query_id |-> test_case.id, query |-> test_case.query,
     category |-> test_case.category,
     response |-> OrchestratorResponse(pipeline_raised),
     evaluation |-> evaluation]

\* the entry appended to self.results when _evaluate_query raised
FailedResult(test_case) ==
    [has_error |-> TRUE, query_id |-> 0, query |-> test_case.query,
     category |-> "", response |-> <<>>, evaluation |-> NoEvaluation]

\* the entry appended to self.errors when _evaluate_query raised
ErrorEntry(test_case, error_type) ==
    [query_id |-> test_case.id, query |-> test_case.query, error_type |-> error_type]

\* _evaluate_query raises: only what its own try block does not cover, here
\* _check_topic_coverage on a topic that is no string
EvaluateQueryRaises(test_case, pipeline_raised) == ~test_case.topics_are_strings

RECURSIVE SumSeq(_)
SumSeq(xs) == IF xs = <<>> THEN 0 ELSE Head(xs) + SumSeq(Tail(xs))

SeqMin(xs) == CHOOSE x \in {xs[i] : i \in 1..Len(xs)} : \A j \in 1..Len(xs) : x <= xs[j]
SeqMax(xs) == CHOOSE x \in {xs[i] : i \in 1..Len(xs)} : \A j \in 1..Len(xs) : x >= xs[j]

\* _calculate_distribution (its median and std_dev left out); has_count is
\* FALSE for the dictionary of an empty list, which has no "count"
_calculate_distribution(scores) ==
    IF scores = <<>>
    THEN [has_count |-> FALSE, count |-> 0, min |-> 0, max |-> 0, total |-> 0]
    ELSE [has_count |-> TRUE, count |-> Len(scores), min |-> SeqMin(scores),
          max |-> SeqMax(scores), total |-> SumSeq(scores)]

\* a Python number is truthy unless it is 0
Truthy(x) == x # 0

RECURSIVE MapCombined(_)
MapCombined(rs) ==
    IF rs = <<>> THEN <<>>
    ELSE <<Head(rs).evaluation.combined_score>> \o MapCombined(Tail(rs))

RECURSIVE MapAcademic(_)
MapAcademic(rs) ==
    IF rs = <<>> THEN <<>>
    ELSE (IF Truthy(Head(rs).evaluation.perspectives.academic.overall_score)
          THEN <<Head(rs).evaluation.perspectives.academic.overall_score>> ELSE <<>>)
         \o MapAcademic(Tail(rs))

RECURSIVE MapPractical(_)
MapPractical(rs) ==
    IF rs = <<>> THEN <<>>
    ELSE (IF Truthy(Head(rs).evaluation.perspectives.practical.overall_score)
          THEN <<Head(rs).evaluation.perspectives.practical.overall_score>> ELSE <<>>)
         \o MapPractical(Tail(rs))

\* the score_distribution of _aggregate_multi_perspective_scores
_aggregate_multi_perspective_scores(successful) ==
    [combined |-> _calculate_distribution(MapCombined(successful)),
     academic |-> _calculate_distribution(MapAcademic(successful)),
     practical |-> _calculate_distribution(MapPractical(successful))]

\* mutant: every entry of self.results counts as successful
Successful_All(rs) == rs

\* [r for r in self.results if "error" not in r]
Successful(rs) == SelectSeq(rs, LAMBDA r : ~r.has_error)

Failed(rs) == SelectSeq(rs, LAMBDA r : r.has_error)

\* _analyze_errors: total_errors
_analyze_errors(errs) == [total_errors |-> Len(errs)]

\* get_score of _find_extremes: combined_score, or overall_score (absent in
\* a multi-perspective evaluation, so 0) when combined_score is falsy
get_score(r) ==
    IF Truthy(r.evaluation.combined_score) THEN r.evaluation.combined_score ELSE 0

\* mutant: max keeps the last maximal element
RECURSIVE MaxBy_KeepsLast(_, _)
MaxBy_KeepsLast(rs, best) ==
    IF rs = <<>> THEN best
    ELSE MaxBy_KeepsLast(Tail(rs), IF get_score(Head(rs)) >= get_score(best)
                                   THEN Head(rs) ELSE best)

\* max(results, key=get_score), from the element `best` on: a later element
\* replaces the current one only if its key is strictly greater
RECURSIVE MaxBy(_, _)
MaxBy(rs, best) ==
    IF rs = <<>> THEN best
    ELSE MaxBy(Tail(rs), IF get_score(Head(rs)) > get_score(best)
                         THEN Head(rs) ELSE best)

\* min(results, key=get_score), from the element `worst` on
RECURSIVE MinBy(_, _)
MinBy(rs, worst) ==
    IF rs = <<>> THEN worst
    ELSE MinBy(Tail(rs), IF get_score(Head(rs)) < get_score(worst)
                         THEN Head(rs) ELSE worst)

\* the dictionary _find_extremes builds of a result; None when there is none
Extreme(r) ==
    [present |-> TRUE, query |-> r.query, score |-> get_score(r),
     category |-> r.category]

NoExtreme == [present |-> FALSE, query |-> 0, score |-> 0, category |-> ""]

\* _find_extremes(successful, use_multi_perspective)
_find_extremes(rs) ==
    IF rs = <<>>
    THEN [best |-> NoExtreme, worst |-> NoExtreme]
    ELSE [best |-> Extreme(MaxBy(Tail(rs), Head(rs))),
          worst |-> Extreme(MinBy(Tail(rs), Head(rs)))]

\* _generate_report, with the error analysis evaluate_system adds
_generate_report(rs, errs) ==
    [is_error |-> FALSE,
     summary |-> [total_queries |-> Len(rs),
                  successful |-> Len(Successful(rs)),
                  failed |-> Len(Failed(rs))],
     scores |-> _aggregate_multi_perspective_scores(Successful(rs)),
     best_result |-> _find_extremes(Successful(rs)).best,
     worst_result |-> _find_extremes(Successful(rs)).worst,
     error_analysis |-> _analyze_errors(errs),
     detailed_results |-> rs]

NoReport == [is_error |-> FALSE,
             summary |-> [total_queries |-> 0, successful |-> 0, failed |-> 0],
             scores |-> _aggregate_multi_perspective_scores(<<>>),
             best_result |-> NoExtreme,
             worst_result |-> NoExtreme,
             error_analysis |-> _analyze_errors(<<>>),
             detailed_results |-> <<>>]

\* {"error": "No test queries found"}
ErrorReport == [NoReport EXCEPT !.is_error = TRUE]

\* mutant: the list of the earlier run is kept
FreshList_KeepsPrevious(previous) == previous

\* `self.results = []`, `self.errors = []`: the attribute is bound to a new
\* empty list, whatever it held
FreshList(previous) == <<>>

\* evaluate_system of an enabled evaluator up to the loop: the lists are
\* reset, the queries loaded
EvalStart ==
    /\ ev_pc = "idle"
    /\ results' = FreshList(results)
    /\ errors' = FreshList(errors)
    /\ ev_i' = 0
    /\ thrown' = 0
    /\ IF testCases = <<>>
       THEN ev_pc' = "done" /\ report' = ErrorReport
       ELSE ev_pc' = "loop" /\ UNCHANGED report
    /\ UNCHANGED <<testCases, ev_runs>>

\* one iteration of the loop: _evaluate_query on the next test case
EvalCase(pipeline_raised, academic, practical) ==
    /\ ev_pc = "loop"
    /\ ev_i < Len(testCases)
    /\ LET test_case == testCases[ev_i + 1] IN
       /\ ev_i' = ev_i + 1
       /\ thrown' = thrown + (IF pipeline_raised THEN 1 ELSE 0)
       /\ IF EvaluateQueryRaises(test_case, pipeline_raised)
          THEN /\ errors' = Append(errors, ErrorEntry(test_case, "AttributeError"))
               /\ results' = Append(results, FailedResult(test_case))
          ELSE /\ results' = Append(results,
                      EvaluatedResult(test_case, pipeline_raised,
                                      MultiPerspectiveEvaluation(academic, practical)))
               /\ UNCHANGED errors
    /\ UNCHANGED <<testCases, ev_pc, report, ev_runs>>

\* after the loop: the report is generated and returned
EvalReport ==
    /\ ev_pc = "loop"
    /\ ev_i = Len(testCases)
    /\ report' = _generate_report(results, errors)
    /\ ev_pc' = "done"
    /\ UNCHANGED <<testCases, ev_i, results, errors, thrown, ev_runs>>

MaxRuns == 2

\* the lists of test cases a later call loads
RerunCaseLists == {cases \in TestCaseLists : Len(cases) <= 1}

\* evaluate_system has returned and the caller calls it again on the same
\* evaluator: self.results and self.errors are as the earlier call left them
EvalNextRun(cases) ==
    /\ ev_pc = "done"
    /\ ev_runs < MaxRuns
    /\ ev_runs' = ev_runs + 1
    /\ testCases' = cases
    /\ ev_pc' = "idle"
    /\ ev_i' = 0
    /\ thrown' = 0
    /\ report' = NoReport
    /\ UNCHANGED <<results, errors>>

\* an evaluator as constructed, about to evaluate some list of test cases
EvalInit ==
    /\ testCases \in TestCaseLists
    /\ ev_pc = "idle"
    /\ ev_i = 0
    /\ results = <<>>
    /\ errors = <<>>
    /\ report = NoReport
    /\ thrown = 0
    /\ ev_runs = 1

EvalIdle ==
    /\ testCases = <<>>
    /\ ev_pc = "idle"
    /\ ev_i = 0
    /\ results = <<>>
    /\ errors = <<>>
    /\ report = NoReport
    /\ thrown = 0
    /\ ev_runs = 1

-----------------------------------------------------------------------------
(* LLMJudge.  Scores are in hundredths; an overall score is the exact      *)
(* quotient [num, den].                                                    *)

\* max(0.0, min(1.0, score))
Clamp_None(score) == score

Clamp(score) == IF score < 0 THEN 0 ELSE IF score > 100 THEN 100 ELSE score

\* What a judge text holds.  json tells what json.loads makes of the text
\* once blanks and code fences are stripped: an object, another JSON value,
\* or a JSONDecodeError.  score is the object's "score" entry: a number (or
\* a numeric string float() accepts), absent, or something float() rejects.
\* captures lists, for the patterns of _extract_score_from_text that match
\* the text, in list order, what group 1 captured: a number, or a run of
\* digits and dots that float() rejects.
ScoreNumbers == {-30, 0, 30, 70, 100, 150}
ScoreEntries ==
    {[kind |-> "number", value |-> v] : v \in ScoreNumbers}
    \cup {[kind |-> "absent", value |-> 0], [kind |-> "not_a_number", value |-> 0]}

CaptureValues == {70, 90, 700, 7500}
Captures ==
    {[is_float |-> TRUE, value |-> v] : v \in CaptureValues}
    \cup {[is_float |-> FALSE, value |-> 0]}
MaxCaptures == 2

Judgments ==
    {j \in [json : {"object", "not_object", "invalid"},
            score : ScoreEntries,
            captures : SeqUpTo(Captures, MaxCaptures)] :
        j.json # "object" => j.score.kind = "absent"}

Judged(score, reasoning) == [score |-> score, reasoning |-> reasoning]

\* score / 10.0 when the captured value is above 1.0
Normalize(value) == IF value > 100 THEN value \div 10 ELSE value

\* _extract_score_from_text: the first capture float() accepts
RECURSIVE ExtractFrom(_)
ExtractFrom(captures) ==
    IF captures = <<>>
    THEN Judged(50, "Could not parse judgment, defaulting to 0.5")
    ELSE IF Head(captures).is_float
         THEN Judged(Clamp(Normalize(Head(captures).value)), "Extracted from text")
         ELSE ExtractFrom(Tail(captures))

_extract_score_from_text(text) == ExtractFrom(text.captures)

\* _parse_judgment: only a JSONDecodeError leads to _extract_score_from_text,
\* any other exception to the default
_parse_judgment(text) ==
    CASE text.json = "invalid" -> _extract_score_from_text(text)
      [] text.json = "not_object" -> Judged(50, "Error parsing judgment")
      [] text.json = "object" /\ text.score.kind = "number" ->
             Judged(Clamp(text.score.value), "reasoning of the judgment")
      [] text.json = "object" /\ text.score.kind = "absent" ->
             Judged(Clamp(50), "reasoning of the judgment")
      [] text.json = "object" /\ text.score.kind = "not_a_number" ->
             Judged(50, "Error parsing judgment")

NoJudgment == [json |-> "invalid", score |-> [kind |-> "absent", value |-> 0],
               captures |-> <<>>]
NotJudged == Judged(0, "")

ParseInit ==
    /\ judgment \in Judgments
    /\ parseDone = FALSE
    /\ parsed = NotJudged

ParseIdle ==
    /\ judgment = NoJudgment
    /\ parseDone = FALSE
    /\ parsed = NotJudged

ParseJudgment ==
    /\ ~parseDone
    /\ parseDone' = TRUE
    /\ parsed' = _parse_judgment(judgment)
    /\ UNCHANGED judgment

\* ---- evaluate and evaluate_multi_perspective

MaxCriteria == 2

\* the criteria the rubrics know, in the order of self.scoring_rubrics
CriterionNames ==
    <<"relevance", "evidence_quality", "factual_accuracy", "safety_compliance", "clarity">>

\* criterion lists with distinct names and positive weights: all weights
\* equal, or the first criterion three times as heavy
CriteriaLists ==
    UNION {{[i \in 1..n |-> [name |-> CriterionNames[i],
                             weight |-> IF i = 1 THEN first ELSE 1]] : first \in {1, 3}}
           : n \in 0..MaxCriteria}

Perspectives == <<"academic", "practical">>

\* what _call_judge_llm does for one (criterion, perspective): it raises, or
\* returns one of these texts
SampleJudgments ==
    {[json |-> "object", score |-> [kind |-> "number", value |-> 150], captures |-> <<>>],
     [json |-> "object", score |-> [kind |-> "number", value |-> -30], captures |-> <<>>],
     [json |-> "object", score |-> [kind |-> "number", value |-> 30], captures |-> <<>>],
     [json |-> "invalid", score |-> [kind |-> "absent", value |-> 0],
      captures |-> <<[is_float |-> TRUE, value |-> 700]>>],
     [json |-> "not_object", score |-> [kind |-> "absent", value |-> 0], captures |-> <<>>]}

JudgeOutcomes ==
    {[raised |-> TRUE, judgment |-> NoJudgment]}
    \cup {[raised |-> FALSE, judgment |-> j] : j \in SampleJudgments}

\* mutant: the exception of the external call is not caught
_judge_criterion_Uncaught(outcome) ==
    IF outcome.raised
    THEN [raises |-> TRUE, score |-> NotJudged]
    ELSE [raises |-> FALSE, score |-> _parse_judgment(outcome.judgment)]

\* _judge_criterion: the score dictionary, and whether the call raises
_judge_criterion(outcome) ==
    IF outcome.raised
    THEN [raises |-> FALSE, score |-> Judged(50, "Error during evaluation")]
    ELSE [raises |-> FALSE, score |-> _parse_judgment(outcome.judgment)]

\* sum(c.get("weight", 1.0) for c in self.criteria)
RECURSIVE total_weight(_)
total_weight(cs) == IF cs = <<>> THEN 0 ELSE Head(cs).weight + total_weight(Tail(cs))

\* weighted_score / total_weight if total_weight > 0 else 0.0
OverallScore(weighted, cs) ==
    IF total_weight(cs) > 0
    THEN [num |-> weighted, den |-> total_weight(cs)]
    ELSE [num |-> 0, den |-> 1]

Abs(x) == IF x < 0 THEN -x ELSE x

\* mutant: a difference of 0.2 still counts as agreement
Agrees_Inclusive(academic_score, practical_score) ==
    Abs(academic_score - practical_score) <= 20

\* The scores are doubles.  Of the pairs of one-decimal scores written 0.2
\* apart these are stored less than 0.2 apart: 0.3 - 0.1, 0.6 - 0.4,
\* 0.7 - 0.5 and 1.0 - 0.8 evaluate to 0.1999..., below the double 0.2; the
\* other such pairs evaluate to 0.2 or 0.2000...07.
StoredCloser == {{10, 30}, {40, 60}, {50, 70}, {80, 100}}

\* diff < 0.2, on the doubles
Agrees(academic_score, practical_score) ==
    \/ Abs(academic_score - practical_score) < 20
    \/ {academic_score, practical_score} \in StoredCloser

\* criterion_scores.get(name, {}).get("score", 0)
ScoreOf(scores, name) ==
    IF \E i \in 1..Len(scores) : scores[i].criterion = name
    THEN scores[CHOOSE i \in 1..Len(scores) : scores[i].criterion = name].score
    ELSE 0

Comparison(criterion, academic, practical) ==
    [criterion |-> criterion.name,
     academic |-> ScoreOf(academic, criterion.name),
     practical |-> ScoreOf(practical, criterion.name)]

\* the loop of evaluate_multi_perspective over self.criteria
Agreements(cs, academic, practical) ==
    SelectSeq([i \in 1..Len(cs) |-> Comparison(cs[i], academic, practical)],
              LAMBDA c : Agrees(c.academic, c.practical))

Disagreements(cs, academic, practical) ==
    SelectSeq([i \in 1..Len(cs) |-> Comparison(cs[i], academic, practical)],
              LAMBDA c : ~Agrees(c.academic, c.practical))

\* 1.0 - (len(disagreements) / max(len(self.criteria), 1))
perspective_correlation(disagreements, cs) ==
    LET den == IF Len(cs) > 1 THEN Len(cs) ELSE 1
    IN [num |-> den - Len(disagreements), den |-> den]

\* academic * 0.5 + practical * 0.5
combined_score(academic, practical) ==
    [num |-> academic.num * practical.den + practical.num * academic.den,
     den |-> 2 * academic.den * practical.den]

NoScores == [academic |-> <<>>, practical |-> <<>>]
NoOverall == [academic |-> [num |-> 0, den |-> 1], practical |-> [num |-> 0, den |-> 1]]
NoJudgmentResult ==
    [combined_score |-> [num |-> 0, den |-> 1],
     perspectives |-> [academic |-> [overall_score |-> [num |-> 0, den |-> 1],
                                     criterion_scores |-> <<>>],
                       practical |-> [overall_score |-> [num |-> 0, den |-> 1],
                                      criterion_scores |-> <<>>]],
     analysis |-> [agreements |-> <<>>, disagreements |-> <<>>,
                   perspective_correlation |-> [num |-> 1, den |-> 1]]]

\* one pass of the loop of evaluate: _judge_criterion for the next criterion
JudgeCriterion(outcome) ==
    /\ jd_pc \in {"academic", "practical"}
    /\ Len(criterion_scores[jd_pc]) < Len(criteria)
    /\ LET criterion == criteria[Len(criterion_scores[jd_pc]) + 1]
           judged == _judge_criterion(outcome)
           score == [score |-> judged.score.score, reasoning |-> judged.score.reasoning,
                     criterion |-> criterion.name, perspective |-> jd_pc]
       IN /\ jd_calls' = Append(jd_calls, [perspective |-> jd_pc,
                                            criterion |-> criterion.name,
                                            outcome |-> outcome])
          /\ IF judged.raises
             THEN /\ jd_pc' = "raised"
                  /\ UNCHANGED <<criterion_scores, weighted_score>>
             ELSE /\ criterion_scores' = [criterion_scores EXCEPT ![jd_pc] = Append(@, score)]
                  /\ weighted_score' = weighted_score + score.score * criterion.weight
                  /\ UNCHANGED jd_pc
    /\ UNCHANGED <<criteria, overall_scores, jd_result>>

\* evaluate returns: the overall score is set; the practical call follows
\* the academic one
FinishEvaluate ==
    /\ jd_pc \in {"academic", "practical"}
    /\ Len(criterion_scores[jd_pc]) = Len(criteria)
    /\ overall_scores' = [overall_scores EXCEPT ![jd_pc] = OverallScore(weighted_score, criteria)]
    /\ weighted_score' = 0
    /\ jd_pc' = IF jd_pc = "academic" THEN "practical" ELSE "combine"
    /\ UNCHANGED <<criteria, criterion_scores, jd_calls, jd_result>>

\* evaluate_multi_perspective after both evaluate calls
CombinePerspectives ==
    /\ jd_pc = "combine"
    /\ LET disagreements == Disagreements(criteria, criterion_scores.academic,
                                          criterion_scores.practical)
       IN jd_result' =
            [combined_score |-> combined_score(overall_scores.academic,
                                               overall_scores.practical),
             perspectives |->
                 [academic |-> [overall_score |-> overall_scores.academic,
                                criterion_scores |-> criterion_scores.academic],
                  practical |-> [overall_score |-> overall_scores.practical,
                                 criterion_scores |-> criterion_scores.practical]],
             analysis |->
                 [agreements |-> Agreements(criteria, criterion_scores.academic,
                                            criterion_scores.practical),
                  disagreements |-> disagreements,
                  perspective_correlation |->
                      perspective_correlation(disagreements, criteria)]]
    /\ jd_pc' = "done"
    /\ UNCHANGED <<criteria, criterion_scores, weighted_score, overall_scores, jd_calls>>

JudgeInit ==
    /\ criteria \in CriteriaLists
    /\ jd_pc = "academic"
    /\ criterion_scores = NoScores
    /\ weighted_score = 0
    /\ overall_scores = NoOverall
    /\ jd_calls = <<>>
    /\ jd_result = NoJudgmentResult

JudgeIdle ==
    /\ criteria = <<>>
    /\ jd_pc = "idle"
    /\ criterion_scores = NoScores
    /\ weighted_score = 0
    /\ overall_scores = NoOverall
    /\ jd_calls = <<>>
    /\ jd_result = NoJudgmentResult

-----------------------------------------------------------------------------
(* Specifications                                                          *)

InitOut == OutInit /\ InIdle /\ CoordIdle /\ EvalIdle /\ ParseIdle /\ JudgeIdle /\ ThreadIdle /\ UIIdle
NextOut ==
    \/ OutValidate /\ UNCHANGED <<inVars, coordVars, evalVars, parseVars, judgeVars, threadVars, uiVars>>
    \/ OutValidateSanitized /\ UNCHANGED <<inVars, coordVars, evalVars, parseVars, judgeVars, threadVars, uiVars>>
SpecOut == InitOut /\ [][NextOut]_vars

InitIn == InInit /\ OutIdle /\ CoordIdle /\ EvalIdle /\ ParseIdle /\ JudgeIdle /\ ThreadIdle /\ UIIdle
NextIn == InValidate /\ UNCHANGED <<outVars, coordVars, evalVars, parseVars, judgeVars, threadVars, uiVars>>
SpecIn == InitIn /\ [][NextIn]_vars

InitEval == EvalInit /\ OutIdle /\ InIdle /\ CoordIdle /\ ParseIdle /\ JudgeIdle /\ ThreadIdle /\ UIIdle
NextEval ==
    \/ EvalStart /\ UNCHANGED <<outVars, inVars, coordVars, parseVars, judgeVars, threadVars, uiVars>>
    \/ \E pipeline_raised \in BOOLEAN, academic, practical \in ScoreValues :
           EvalCase(pipeline_raised, academic, practical)
           /\ UNCHANGED <<outVars, inVars, coordVars, parseVars, judgeVars, threadVars, uiVars>>
    \/ EvalReport /\ UNCHANGED <<outVars, inVars, coordVars, parseVars, judgeVars, threadVars, uiVars>>
    \/ \E cases \in RerunCaseLists :
           EvalNextRun(cases)
           /\ UNCHANGED <<outVars, inVars, coordVars, parseVars, judgeVars, threadVars, uiVars>>
SpecEval == InitEval /\ [][NextEval]_vars

InitParse == ParseInit /\ OutIdle /\ InIdle /\ CoordIdle /\ EvalIdle /\ JudgeIdle /\ ThreadIdle /\ UIIdle
NextParse == ParseJudgment /\ UNCHANGED <<outVars, inVars, coordVars, evalVars, judgeVars, threadVars, uiVars>>
SpecParse == InitParse /\ [][NextParse]_vars

InitJudge == JudgeInit /\ OutIdle /\ InIdle /\ CoordIdle /\ EvalIdle /\ ParseIdle /\ ThreadIdle /\ UIIdle
NextJudge ==
    \/ \E outcome \in JudgeOutcomes :
           JudgeCriterion(outcome)
           /\ UNCHANGED <<outVars, inVars, coordVars, evalVars, parseVars, threadVars, uiVars>>
    \/ FinishEvaluate /\ UNCHANGED <<outVars, inVars, coordVars, evalVars, parseVars, threadVars, uiVars>>
    \/ CombinePerspectives /\ UNCHANGED <<outVars, inVars, coordVars, evalVars, parseVars, threadVars, uiVars>>
SpecJudge == InitJudge /\ [][NextJudge]_vars

InitCheckInput == CheckInputInit /\ OutIdle /\ EvalIdle /\ ParseIdle /\ JudgeIdle /\ ThreadIdle /\ UIIdle
NextCheckInput == CheckInputSafety /\ UNCHANGED <<outVars, evalVars, parseVars, judgeVars, threadVars, uiVars>>
SpecCheckInput == InitCheckInput /\ [][NextCheckInput]_vars

InitThreads == ThreadInit /\ OutIdle /\ InIdle /\ EvalIdle /\ ParseIdle /\ JudgeIdle /\ UIIdle
NextThreads ==
    \/ \E t \in Threads, q \in Queries :
           ThreadCall(t, q) /\ UNCHANGED <<outVars, inVars, evalVars, parseVars, judgeVars, uiVars>>
    \/ \E t \in Threads :
           ThreadValidate(t) /\ UNCHANGED <<outVars, inVars, evalVars, parseVars, judgeVars, uiVars>>
    \/ \E t \in Threads :
           ThreadAppend(t) /\ UNCHANGED <<outVars, inVars, evalVars, parseVars, judgeVars, uiVars>>
    \/ ClearEvents /\ UNCHANGED <<outVars, inVars, evalVars, parseVars, judgeVars, threadVars, uiVars>>
SpecThreads == InitThreads /\ [][NextThreads]_vars

InitUI == CoordInit /\ UIIdle /\ OutIdle /\ InIdle /\ EvalIdle /\ ParseIdle /\ JudgeIdle /\ ThreadIdle
NextUI ==
    \/ \E q \in Queries :
           UI_Send(q) /\ UNCHANGED <<outVars, inVars, evalVars, parseVars, judgeVars, threadVars>>
    \/ \E outcome \in PipelineOutcomes :
           PQ_RunPipeline(outcome)
           /\ UNCHANGED <<outVars, inVars, evalVars, parseVars, judgeVars, threadVars, uiVars>>
    \/ PQ_CheckOutput
       /\ UNCHANGED <<outVars, inVars, evalVars, parseVars, judgeVars, threadVars, uiVars>>
    \/ UI_Track /\ UNCHANGED <<outVars, inVars, evalVars, parseVars, judgeVars, threadVars>>
SpecUI == InitUI /\ [][NextUI]_vars

Init == CoordInit /\ OutIdle /\ InIdle /\ EvalIdle /\ ParseIdle /\ JudgeIdle /\ ThreadIdle /\ UIIdle
Next ==
    \/ \E q \in Queries : PQ_CheckInput(q) /\ UNCHANGED <<outVars, inVars, evalVars, parseVars, judgeVars, threadVars, uiVars>>
    \/ \E outcome \in PipelineOutcomes :
           PQ_RunPipeline(outcome) /\ UNCHANGED <<outVars, inVars, evalVars, parseVars, judgeVars, threadVars, uiVars>>
    \/ PQ_CheckOutput /\ UNCHANGED <<outVars, inVars, evalVars, parseVars, judgeVars, threadVars, uiVars>>
    \/ GetSafetyEvents /\ UNCHANGED <<outVars, inVars, evalVars, parseVars, judgeVars, threadVars, uiVars>>
    \/ GetSafetyStats /\ UNCHANGED <<outVars, inVars, evalVars, parseVars, judgeVars, threadVars, uiVars>>
    \/ ClearEvents /\ UNCHANGED <<outVars, inVars, evalVars, parseVars, judgeVars, threadVars, uiVars>>
Spec == Init /\ [][Next]_vars

-----------------------------------------------------------------------------
(* Claims                                                                  *)

HasHigh(violations) == \E i \in 1..Len(violations) : violations[i].severity = "high"

\* the last finished call of process_query ran the output check on `pipeline`
LastCallCheckedOutput == pc = "idle" /\ pipeline # NoPipeline /\ ~pipeline.raised

\* C1: when the input check reports the query as not safe, the team is never
\* run for that query; the call returns the refusal result with an empty
\* conversation history, metadata.blocked set and no output check.
C1_BlockedInputNeverRunsPipeline ==
    ~input_safety.safe =>
        /\ pc = "idle"
        /\ teamRuns = 0
        /\ pipeline = NoPipeline
        /\ result.returned
        /\ result.query = the_query
        /\ result.input_check = input_safety
        /\ result.blocked
        /\ result.conversation_history = <<>>
        /\ ~result.output_check.present
        /\ result.response = GetOr(input_safety.message, DefaultBlockedResponse)

\* C1 witness: a second query was blocked after an earlier one ran the team
C1_Witness ==
    /\ pc = "idle"
    /\ nQueries = 2
    /\ ~input_safety.safe
    /\ result.blocked
    /\ teamRuns = 0

\* C2: with the action `refuse`, when the output check finds a high-severity
\* violation, the response returned is the policy refusal message, never the
\* pipeline's original or redacted text.
C2_RefuseSubstitutesPolicyMessage ==
    (/\ LastCallCheckedOutput
     /\ on_violation.action = "refuse"
     /\ HasHigh(result.output_check.violations))
    => /\ result.response = GetOr(on_violation.message, DefaultOutputRefusal)
       /\ result.response # pipeline.response
       /\ result.response #
              ValidateOutput(pipeline.response, pipeline.research_findings).sanitized_output

\* C2 witness: a response with an e-mail address was refused
C2_Witness ==
    /\ LastCallCheckedOutput
    /\ on_violation.action = "refuse"
    /\ HasHigh(result.output_check.violations)
    /\ result.output_sanitized
    /\ result.response = ConfiguredMessage

\* C4: if the pipeline raises for a query that passed the input check,
\* process_query returns a result with the query and the error, performs no
\* output check and appends no output event for that query.
C4_PipelineFailureSkipsOutputCheck ==
    [][(pc = "RunningPipeline" /\ pipeline'.raised) =>
          /\ pc' = "idle"
          /\ result'.returned
          /\ result'.error
          /\ result'.query = the_query
          /\ result'.input_check = input_safety
          /\ ~result'.output_check.present
          /\ listObjs' = listObjs]_vars

\* C4 witness: the team raised and the call returned the error result
C4_Witness ==
    /\ pc = "idle"
    /\ pipeline.raised
    /\ teamRuns = 1
    /\ result.error
    /\ ~result.output_check.present

\* C5: for a batch of N test cases of which k throw during pipeline
\* execution (the others succeeding), the report has summary.failed = k,
\* summary.successful = N - k, error_analysis.total_errors = k, and its
\* statistics are computed over the N - k successes only.
C5_PipelineFailuresCounted ==
    (/\ ev_pc = "done"
     /\ testCases # <<>>
     /\ \A i \in 1..Len(testCases) : testCases[i].topics_are_strings)
    => /\ report.summary.failed = thrown
       /\ report.summary.successful = Len(testCases) - thrown
       /\ report.error_analysis.total_errors = thrown
       /\ report.scores.combined.count = Len(testCases) - thrown

\* the step is an input check (the first step of process_query)
InputCheckStep == pc = "idle" /\ nQueries' = nQueries + 1
\* the step is an output check (the last step of process_query)
OutputCheckStep == pc = "CheckingOutput" /\ pc' = "idle"

\* the step appends exactly one event of the direction to the log
AppendsOne(direction, violations) ==
    /\ safety_events' = safety_events
    /\ Len(CurrentLog') = Len(CurrentLog) + 1
    /\ IsPrefix(CurrentLog, CurrentLog')
    /\ CurrentLog'[Len(CurrentLog')].type = direction
    /\ CurrentLog'[Len(CurrentLog')].violations = violations

\* C6 (as stated): every input or output check that finds at least one
\* violation appends exactly one event of its direction, blocking or not; a
\* check that finds none appends none.
C6_EveryViolatingCheckLogged ==
    [][/\ InputCheckStep =>
            IF input_safety'.violations # <<>>
            THEN AppendsOne("input", input_safety'.violations)
            ELSE listObjs' = listObjs
       /\ OutputCheckStep =>
            IF result'.output_check.violations # <<>>
            THEN AppendsOne("output", result'.output_check.violations)
            ELSE listObjs' = listObjs]_vars

\* C6 (amended): with event logging on (log_events), every input or output
\* check that finds at least one violation appends exactly one event of its
\* direction, blocking or not; a check that finds none, and any check with
\* event logging off, appends none.
C6_ViolatingCheckLoggedWhenLoggingOn ==
    [][/\ InputCheckStep =>
            IF log_events /\ input_safety'.violations # <<>>
            THEN AppendsOne("input", input_safety'.violations)
            ELSE listObjs' = listObjs
       /\ OutputCheckStep =>
            IF log_events /\ result'.output_check.violations # <<>>
            THEN AppendsOne("output", result'.output_check.violations)
            ELSE listObjs' = listObjs]_vars

\* C6 witness: the log holds the event of a blocked input and the event of
\* an output check that did not block
C6_Witness ==
    /\ Len(CurrentLog) >= 2
    /\ \E i \in 1..Len(CurrentLog) : CurrentLog[i].type = "input"
    /\ \E i \in 1..Len(CurrentLog) : CurrentLog[i].type = "output" /\ CurrentLog[i].safe

\* C7: the log is append-only: checks and reads keep the existing events in
\* place and never shorten the log; only clear_events empties it.
C7_LogAppendOnly ==
    [][IF safety_events' = safety_events
       THEN IsPrefix(CurrentLog, CurrentLog')
       ELSE pc = "idle" /\ CurrentLog' = <<>> /\ UNCHANGED callVars]_vars

\* C7 witness: two events are in the log, and the events and the statistics
\* have been read
C7_Witness ==
    /\ Len(CurrentLog) >= 2
    /\ handed.given
    /\ stats.total_events >= 1

\* C8: the list get_safety_events hands out is a snapshot: later checks on
\* the same coordinator do not change a previously returned list.
C8_ReturnedEventListIsSnapshot ==
    handed.given => listObjs[handed.ref] = handed.snapshot

\* The text with every atom that a PII pattern matches, and that is no
\* placeholder value, replaced by the marker of its type.
RedactedAtom(atom) ==
    IF \E i \in 1..Len(PiiTypes) :
           atom \in PiiAtoms(PiiTypes[i]) /\ ~IsFalsePositive(PiiTypes[i], <<atom>>)
    THEN RedactionMarker(PiiTypes[CHOOSE i \in 1..Len(PiiTypes) :
                                      atom \in PiiAtoms(PiiTypes[i])])
    ELSE atom

FullyRedacted(text) == [i \in 1..Len(text) |-> RedactedAtom(text[i])]

\* C3: after ValidateOutput, every substring a PII pattern matched and that
\* survived the false-positive filter is absent from sanitizedText, each
\* occurrence replaced by its [REDACTED <TYPE>] marker, for every PII type
\* and any number of occurrences.
C3_EveryPiiMatchRedacted ==
    outDone =>
        /\ outResult.sanitized_output = FullyRedacted(outText)
        /\ \A i \in 1..Len(outResult.sanitized_output) :
               RedactedAtom(outResult.sanitized_output[i]) = outResult.sanitized_output[i]

ValidatorRank(validator) ==
    CASE validator = "length" -> 1
      [] validator = "prompt_injection" -> 2
      [] validator = "toxic_language" -> 3
      [] validator = "relevance" -> 4

OfValidator(violations, validator) ==
    SelectSeq(violations, LAMBDA v : v.validator = validator)

\* C9: ValidateInput runs all four checks without short-circuiting, returns
\* their violations in the order length, prompt-injection, toxic-language,
\* relevance, and passed is true iff the list is empty.
C9_AllChecksInOrder ==
    inDone =>
        LET vs == inResult.violations IN
        /\ OfValidator(vs, "length") = _check_length(inText)
        /\ OfValidator(vs, "prompt_injection") = _check_prompt_injection(inText)
        /\ OfValidator(vs, "toxic_language") = _check_toxic_language(inText)
        /\ OfValidator(vs, "relevance") = _check_relevance(inText)
        /\ \A i, j \in 1..Len(vs) :
               i < j => ValidatorRank(vs[i].validator) <= ValidatorRank(vs[j].validator)
        /\ inResult.valid <=> (vs = <<>>)

\* C9 witness: one call that returns both length violations, an injection
\* and a relevance violation together, and does not pass
C9_Witness ==
    /\ inDone
    /\ ~inResult.valid
    /\ Len(inResult.violations) = 4
    /\ inResult.violations[1].severity = "low"
    /\ inResult.violations[2].severity = "medium"
    /\ inResult.violations[3].validator = "prompt_injection"
    /\ inResult.violations[Len(inResult.violations)].validator = "relevance"

\* C10: ValidateOutput passes iff no returned violation has severity high;
\* low and medium violations (bias, citations) leave it true, any PII or
\* harmful-content violation makes it false.
C10_PassedIffNoHigh ==
    outDone =>
        LET vs == outResult.violations IN
        /\ outResult.valid <=> (\A i \in 1..Len(vs) : vs[i].severity # "high")
        /\ (\E i \in 1..Len(vs) : vs[i].validator \in {"pii", "harmful_content"})
               => ~outResult.valid
        /\ (\A i \in 1..Len(vs) : vs[i].validator \in {"bias", "citations"})
               => outResult.valid

\* C10 witness: a response with a bias and a citation violation that passes
C10_Witness ==
    /\ outDone
    /\ outResult.valid
    /\ Len(outResult.violations) = 2
    /\ outResult.violations[1].validator = "bias"
    /\ outResult.violations[2].validator = "citations"


\* the patterns of the list that match the text, by position
MatchingPatterns(text) ==
    {i \in 1..Len(injection_patterns) : PatternMatches(injection_patterns[i], text)}

\* C11: the prompt-injection check emits exactly one severity-high
\* prompt_injection violation when at least one pattern matches, however many
\* match, and none otherwise; the violation carries the label of the first
\* matching pattern in list order.
C11_OneInjectionViolation ==
    inDone =>
        LET found == OfValidator(inResult.violations, "prompt_injection")
            matching == MatchingPatterns(inText)
        IN IF matching = {}
           THEN found = <<>>
           ELSE LET first == CHOOSE i \in matching : \A j \in matching : i <= j
                IN /\ Len(found) = 1
                   /\ found[1].severity = "high"
                   /\ found[1].matches = <<PatternLabel(injection_patterns[first])>>

\* C11 witness: a query that two different patterns match, the later one
\* first in the text, got one violation
C11_Witness ==
    /\ inDone
    /\ Cardinality(MatchingPatterns(inText)) >= 2
    /\ Len(inText) >= 2 /\ inText[1] = "sudo"
    /\ Len(OfValidator(inResult.violations, "prompt_injection")) = 1

\* the harmful keywords the text holds as whole words
KeywordsMatched(text) ==
    {k \in {harmful_keywords[i] : i \in 1..Len(harmful_keywords)} : TextHasWord(k, text)}

HasResearchContext(text) ==
    \E j \in 1..Len(ResearchContextMarkers) : TextHasSubstring(ResearchContextMarkers[j], text)

\* C12: the toxic-keyword check emits no violation when no harmful keyword
\* matches, or when exactly one matches and the text has a research-context
\* marker; otherwise exactly one toxic_language violation, of severity high
\* if two or more keywords matched and medium if exactly one did.
C12_ToxicSeverity ==
    inDone =>
        LET found == OfValidator(inResult.violations, "toxic_language")
            n == Cardinality(KeywordsMatched(inText))
        IN IF n = 0 \/ (n = 1 /\ HasResearchContext(inText))
           THEN found = <<>>
           ELSE /\ Len(found) = 1
                /\ found[1].severity = (IF n >= 2 THEN "high" ELSE "medium")

\* C12 witness: two keywords in a research context, reported as high
C12_Witness ==
    /\ inDone
    /\ Cardinality(KeywordsMatched(inText)) = 2
    /\ HasResearchContext(inText)
    /\ \E i \in 1..Len(inResult.violations) :
           /\ inResult.violations[i].validator = "toxic_language"
           /\ inResult.violations[i].severity = "high"

\* C13: a text shorter than min_query_length gets a length violation of
\* severity low, a text longer than max_query_length one of severity medium,
\* and these come in addition to the injection, toxicity and relevance
\* violations of the same call.
C13_LengthViolations ==
    inDone =>
        LET vs == inResult.violations
            lengths == OfValidator(vs, "length")
        IN /\ CharLen(inText) < min_query_length
                => \E i \in 1..Len(lengths) : lengths[i].severity = "low"
           /\ CharLen(inText) > max_query_length
                => \E i \in 1..Len(lengths) : lengths[i].severity = "medium"
           /\ SelectSeq(vs, LAMBDA v : v.validator # "length")
                = _check_prompt_injection(inText)
                  \o _check_toxic_language(inText)
                  \o _check_relevance(inText)

\* C13 witness: a query of blanks and two keywords, too long, reported with
\* its medium length violation next to a toxicity and a relevance violation
C13_Witness ==
    /\ inDone
    /\ CharLen(inText) > max_query_length
    /\ LongBlank \in {inText[i] : i \in 1..Len(inText)}
    /\ \E i \in 1..Len(inResult.violations) :
           /\ inResult.violations[i].validator = "length"
           /\ inResult.violations[i].severity = "medium"
    /\ \E i \in 1..Len(inResult.violations) :
           inResult.violations[i].validator = "toxic_language"
    /\ \E i \in 1..Len(inResult.violations) :
           inResult.violations[i].validator = "relevance"

\* the PII violations of a list, and the markers a text shows as atoms (a
\* laced atom holds more of them inside)
PiiViolations(violations) == SelectSeq(violations, LAMBDA v : v.validator = "pii")

MarkerCount(text) == Len(SelectSeq(text, LAMBDA a : a \in RedactionMarkers))

\* C14: for "Contact support at user@company.com or call 555-123-4567."
\* ValidateOutput returns passed = false with exactly two high-severity PII
\* violations (email, phone), and sanitizedText holds exactly two
\* [REDACTED ...] markers and neither the raw e-mail address nor the raw
\* phone number.
C14_ContactScenarioRedacted ==
    (outDone /\ outText = ContactText) =>
        LET pii == PiiViolations(outResult.violations)
            sanitized == outResult.sanitized_output
        IN /\ ~outResult.valid
           /\ Len(pii) = 2
           /\ pii[1].pii_type = "email" /\ pii[1].severity = "high"
           /\ pii[2].pii_type = "phone_us" /\ pii[2].severity = "high"
           /\ MarkerCount(sanitized) = 2
           /\ \A i \in 1..Len(sanitized) :
                  sanitized[i] \notin {"user@company.com", "555-123-4567"}

\* the PII types a validation reported
ReportedTypes(validation) ==
    {PiiViolations(validation.violations)[i].pii_type :
        i \in 1..Len(PiiViolations(validation.violations))}

\* C15: validating the sanitizedText of ValidateOutput(x) again reports no
\* PII that was reported for x, and the [REDACTED <TYPE>] markers match no
\* PII pattern.
C15_SanitizeIdempotent ==
    /\ outAgainDone => ReportedTypes(outAgain) \cap ReportedTypes(outResult) = {}
    /\ \A i \in 1..Len(PiiTypes) : RedactionMarkers \cap PiiAtoms(PiiTypes[i]) = {}

\* sum of score_i * weight_i over the criteria, from the scores a result holds
RECURSIVE WeightedSum(_, _)
WeightedSum(scores, cs) ==
    IF cs = <<>> \/ scores = <<>> THEN 0
    ELSE Head(scores).score * Head(cs).weight + WeightedSum(Tail(scores), Tail(cs))

\* the calls that returned a number outside [0, 1]
OutOfRangeCalls ==
    {i \in 1..Len(jd_calls) :
        /\ ~jd_calls[i].outcome.raised
        /\ jd_calls[i].outcome.judgment.json = "object"
        /\ jd_calls[i].outcome.judgment.score.kind = "number"
        /\ jd_calls[i].outcome.judgment.score.value \notin 0..100}

\* C16: with positive weights summing to W, the overall score of a
\* single-perspective evaluation equals (sum of score_i * weight_i) / W and
\* lies in [0, 1], every criterion score being clamped to [0, 1] whatever the
\* judge returned.
C16_OverallIsWeightedMean ==
    (jd_pc = "done" /\ total_weight(criteria) > 0) =>
        \A p \in {"academic", "practical"} :
            LET evaluation == jd_result.perspectives[p]
                overall == evaluation.overall_score
            IN /\ \A i \in 1..Len(evaluation.criterion_scores) :
                      evaluation.criterion_scores[i].score \in 0..100
               /\ overall.num * total_weight(criteria)
                      = overall.den * WeightedSum(evaluation.criterion_scores, criteria)
               /\ 0 <= overall.num /\ overall.num <= 100 * overall.den

\* C16 witness: an evaluation over two criteria of different weights in which
\* the judge returned a score above 1 and a score below 0
C16_Witness ==
    /\ jd_pc = "done"
    /\ Len(criteria) >= 2
    /\ criteria[1].weight # criteria[2].weight
    /\ \E i \in OutOfRangeCalls : jd_calls[i].outcome.judgment.score.value > 100
    /\ \E i \in OutOfRangeCalls : jd_calls[i].outcome.judgment.score.value < 0

\* the captures of a text that float() accepts
FloatCaptures(text) == SelectSeq(text.captures, LAMBDA c : c.is_float)

\* C17: whenever structured parsing of the judge's text fails (not valid
\* JSON, valid JSON that is not an object, or an object whose score is not a
\* number), the parser falls back to extracting a numeric token, dividing a
\* captured value above 1 by 10; only if extraction fails too is the score
\* 0.5, with the reasoning recording the parse failure.
C17_ParseFailureFallsBackToExtraction ==
    (/\ parseDone
     /\ \/ judgment.json # "object"
        \/ judgment.score.kind = "not_a_number") =>
        IF FloatCaptures(judgment) # <<>>
        THEN LET value == FloatCaptures(judgment)[1].value
             IN parsed.score = Clamp(IF value > 100 THEN value \div 10 ELSE value)
        ELSE /\ parsed.score = 50
             /\ parsed.reasoning \in {"Could not parse judgment, defaulting to 0.5",
                                      "Error parsing judgment"}

\* the call made for a criterion under a perspective
CallFor(p, name) ==
    jd_calls[CHOOSE i \in 1..Len(jd_calls) :
                 jd_calls[i].perspective = p /\ jd_calls[i].criterion = name]

\* C18: if the external call raises for any subset of the (criterion,
\* perspective) pairs, the evaluation does not raise: each failing pair gets
\* score 0.5 with the error as reasoning, every other pair its own judged
\* score, and the result holds a score for every criterion under both
\* perspectives.
C18_CallFailuresContained ==
    /\ jd_pc # "raised"
    /\ jd_pc = "done" =>
        \A p \in {"academic", "practical"} :
            LET scores == jd_result.perspectives[p].criterion_scores
            IN /\ Len(scores) = Len(criteria)
               /\ \A i \in 1..Len(criteria) :
                      /\ scores[i].criterion = criteria[i].name
                      /\ scores[i].perspective = p
                      /\ IF CallFor(p, criteria[i].name).outcome.raised
                         THEN /\ scores[i].score = 50
                              /\ scores[i].reasoning = "Error during evaluation"
                         ELSE Judged(scores[i].score, scores[i].reasoning)
                                  = _parse_judgment(CallFor(p, criteria[i].name).outcome.judgment)

\* C18 witness: under each perspective one call raised and another returned
\* a score other than 0.5
C18_Witness ==
    /\ jd_pc = "done"
    /\ \A p \in {"academic", "practical"} :
           /\ \E i \in 1..Len(jd_calls) :
                  jd_calls[i].perspective = p /\ jd_calls[i].outcome.raised
           /\ \E i \in 1..Len(jd_result.perspectives[p].criterion_scores) :
                  jd_result.perspectives[p].criterion_scores[i].score \notin {50}

\* the difference of two stored scores is below 0.2: they are written less
\* than 0.2 apart, or written 0.2 apart and stored closer than that
StoredDifferenceBelowFifth(a, p) ==
    \/ Abs(a - p) < 20
    \/ Abs(a - p) = 20 /\ \E pair \in StoredCloser : pair = {a, p}

\* C19: every criterion is in exactly one of agreements (score difference
\* below 0.2) and disagreements (difference of 0.2 or more), so the two
\* lists together are as long as the criteria, and perspective_correlation
\* is 1 - |disagreements| / |criteria|.
C19_AgreementPartition ==
    jd_pc = "done" =>
        LET agreements == jd_result.analysis.agreements
            disagreements == jd_result.analysis.disagreements
            correlation == jd_result.analysis.perspective_correlation
            academic == jd_result.perspectives.academic.criterion_scores
            practical == jd_result.perspectives.practical.criterion_scores
        IN /\ Len(agreements) + Len(disagreements) = Len(criteria)
           /\ \A i \in 1..Len(criteria) :
                  LET name == criteria[i].name
                      inAgreements ==
                          Cardinality({k \in 1..Len(agreements) : agreements[k].criterion = name})
                      inDisagreements ==
                          Cardinality({k \in 1..Len(disagreements) :
                                          disagreements[k].criterion = name})
                  IN /\ inAgreements + inDisagreements = 1
                     /\ (inAgreements = 1)
                            <=> StoredDifferenceBelowFifth(academic[i].score, practical[i].score)
           /\ correlation.num * Len(criteria)
                  = correlation.den * (Len(criteria) - Len(disagreements))

\* C19 witness: one criterion whose scores (0.7 and 0.5) are stored less
\* than 0.2 apart and agree, and one whose scores (0.3 and 0.5) are 0.2
\* apart and disagree
C19_Witness ==
    /\ jd_pc = "done"
    /\ \E k \in 1..Len(jd_result.analysis.agreements) :
           {jd_result.analysis.agreements[k].academic,
            jd_result.analysis.agreements[k].practical} = {50, 70}
    /\ \E k \in 1..Len(jd_result.analysis.disagreements) :
           {jd_result.analysis.disagreements[k].academic,
            jd_result.analysis.disagreements[k].practical} = {30, 50}


\* C20: in process_query, when the output check finds at least one violation
\* and none of them blocks (low or medium severity only), the returned
\* response is the guardrail's sanitized text and the result's metadata
\* carries the output_sanitized flag.
C20_FlaggedOutputMarkedSanitized ==
    (/\ LastCallCheckedOutput
     /\ result.output_check.violations # <<>>
     /\ ~HasHigh(result.output_check.violations))
    => /\ result.response =
              ValidateOutput(pipeline.response, pipeline.research_findings).sanitized_output
       /\ result.output_sanitized

\* C21: in process_query, when the output check finds no violation at all,
\* the response returned is exactly the pipeline's response, the
\* output_sanitized flag is not set, and the output check leaves the event
\* log unchanged.
C21_CleanOutputDeliveredUnchanged ==
    [][(OutputCheckStep /\ result'.output_check.violations = <<>>)
       => /\ result'.response = pipeline.response
          /\ ~result'.output_sanitized
          /\ listObjs' = listObjs
          /\ safety_events' = safety_events]_vars

\* C21 witness: after an earlier check was logged, a response without any
\* violation was delivered
C21_Witness ==
    /\ LastCallCheckedOutput
    /\ enabled
    /\ log_events
    /\ result.output_check.present
    /\ result.output_check.violations = <<>>
    /\ result.response = pipeline.response
    /\ result.response # <<>>
    /\ Len(CurrentLog) >= 1

\* C22: for a non-empty list of N test cases, whichever of them fail,
\* evaluate_system runs the loop over all of them and builds a report whose
\* detailed results are N entries in input order (entry i is of test case
\* i), with total_queries = N = successful + failed and
\* error_analysis.total_errors = failed.
C22_ReportCoversEveryCase ==
    (ev_pc = "done" /\ testCases # <<>>)
    => /\ ev_i = Len(testCases)
       /\ ~report.is_error
       /\ Len(report.detailed_results) = Len(testCases)
       /\ \A i \in 1..Len(testCases) :
              report.detailed_results[i].query = testCases[i].query
       /\ report.summary.total_queries = Len(testCases)
       /\ report.summary.total_queries =
              report.summary.successful + report.summary.failed
       /\ report.error_analysis.total_errors = report.summary.failed

\* C22 witness: a report of several cases of which the first failed and a
\* later one succeeded
C22_Witness ==
    /\ ev_pc = "done"
    /\ Len(testCases) >= 2
    /\ report.detailed_results[1].has_error
    /\ \E i \in 2..Len(testCases) : ~report.detailed_results[i].has_error
    /\ report.summary.failed >= 1
    /\ report.summary.successful >= 1

\* the score by which the report ranks entry i of its detailed results
RankScore(i) == get_score(report.detailed_results[i])

\* entry i is a successful record whose score is maximal among the
\* successful records and that is the earliest of those
FirstBest(i) ==
    /\ ~report.detailed_results[i].has_error
    /\ \A j \in 1..Len(report.detailed_results) :
           ~report.detailed_results[j].has_error =>
               /\ RankScore(j) <= RankScore(i)
               /\ j < i => RankScore(j) < RankScore(i)

\* the same for the minimal score
FirstWorst(i) ==
    /\ ~report.detailed_results[i].has_error
    /\ \A j \in 1..Len(report.detailed_results) :
           ~report.detailed_results[j].has_error =>
               /\ RankScore(j) >= RankScore(i)
               /\ j < i => RankScore(j) > RankScore(i)

\* C23: the report's best (worst) result is a successful record whose
\* combined score is maximal (minimal) among the successful records, the
\* earliest in input order of the records that share that score; with no
\* successful record both are absent.
C23_ExtremesFirstOccurrence ==
    (ev_pc = "done" /\ ~report.is_error)
    => IF \A i \in 1..Len(report.detailed_results) : report.detailed_results[i].has_error
       THEN ~report.best_result.present /\ ~report.worst_result.present
       ELSE /\ report.best_result.present
            /\ report.worst_result.present
            /\ \E i \in 1..Len(report.detailed_results) :
                   /\ FirstBest(i)
                   /\ report.best_result.query = report.detailed_results[i].query
                   /\ report.best_result.score = RankScore(i)
            /\ \E i \in 1..Len(report.detailed_results) :
                   /\ FirstWorst(i)
                   /\ report.worst_result.query = report.detailed_results[i].query
                   /\ report.worst_result.score = RankScore(i)

\* C23 witness: two successful records share the maximal score and the
\* earlier one is the best result, while a failed record precedes them
C23_Witness ==
    /\ ev_pc = "done"
    /\ ~report.is_error
    /\ Len(report.detailed_results) >= 3
    /\ report.detailed_results[1].has_error
    /\ ~report.detailed_results[2].has_error
    /\ ~report.detailed_results[3].has_error
    /\ RankScore(2) = RankScore(3)
    /\ RankScore(2) > 0
    /\ report.best_result.query = report.detailed_results[2].query

\* C24: when an input is blocked under the refuse action, the refusal
\* message is the one of the dominant violation type, in the fixed priority
\* prompt_injection, toxic_language, length, relevance, whatever the order
\* and number of the violations; the generic policy message is used only
\* when none of the four types is present.
C24_RefusalByDominantType ==
    (/\ input_safety.present
     /\ ~input_safety.safe
     /\ on_violation.action = "refuse")
    => LET types == ViolationTypes(input_safety.violations)
           message == input_safety.message
       IN /\ "prompt_injection" \in types => message = InjectionRefusal
          /\ ("toxic_language" \in types /\ "prompt_injection" \notin types)
                 => message = ToxicRefusal
          /\ ("length" \in types /\ types \cap {"prompt_injection", "toxic_language"} = {})
                 => message = LengthRefusal
          /\ types = {"relevance"} => message = RelevanceRefusal
          /\ message \in {GetOr(on_violation.message, DefaultPolicyMessage),
                          GetOr(on_violation.message, DefaultEmptyRefusal)}
                 => types \cap {"prompt_injection", "toxic_language", "length",
                                "relevance"} = {}

\* C24 witness: a blocked query whose first violation is of the length check
\* and which also has an injection and a toxic-language violation gets the
\* injection message
C24_Witness ==
    /\ input_safety.present
    /\ ~input_safety.safe
    /\ on_violation.action = "refuse"
    /\ Len(input_safety.violations) >= 3
    /\ input_safety.violations[1].validator = "length"
    /\ {"prompt_injection", "toxic_language"} \subseteq ViolationTypes(input_safety.violations)
    /\ input_safety.message = InjectionRefusal

\* C25: every event in the log has a content preview of at most 100
\* characters, whatever the length of the checked query or response.
C25_PreviewAtMostHundredChars ==
    \A i \in 1..Len(CurrentLog) :
        PreviewLen(CurrentLog[i].content_preview) <= PreviewChars

\* the threads whose check found at least one violation
ViolatingThreads ==
    {t \in Threads : enabled /\ ValidateInput(th_query[t]).violations # <<>>}

\* how often the event occurs in the log
Occurrences(event) ==
    Cardinality({i \in 1..Len(CurrentLog) : CurrentLog[i] = event})

\* the log holds whole events only, one for each violating check
OneEventPerViolatingCheck ==
    /\ Len(CurrentLog) = Cardinality(ViolatingThreads)
    /\ \A i \in 1..Len(CurrentLog) :
           \E t \in ViolatingThreads : CurrentLog[i] = ThreadEvent(th_query[t])
    /\ \A t \in ViolatingThreads :
           Occurrences(ThreadEvent(th_query[t])) =
               Cardinality({u \in ViolatingThreads : th_query[u] = th_query[t]})

AllChecksFinished == \A t \in Threads : th_pc[t] = "done"

\* C26 (as stated): when several queries are checked concurrently against
\* one SafetyManager, no event is lost, duplicated or interleaved with
\* another: once all checks have finished, and absent a reset, the log holds
\* exactly one event per check that found at least one violation.
C26_ConcurrentAppendsSerialized ==
    (AllChecksFinished /\ safety_events = 1) => OneEventPerViolatingCheck

\* C26 (amended): with event logging on (log_events), when several queries
\* are checked concurrently against one SafetyManager, no event is lost,
\* duplicated or interleaved with another: once all checks have finished,
\* and absent a reset, the log holds exactly one event per check that found
\* at least one violation; with event logging off the log stays empty.
C26_ConcurrentAppendsSerializedWhenLoggingOn ==
    (AllChecksFinished /\ safety_events = 1)
    => IF log_events THEN OneEventPerViolatingCheck ELSE CurrentLog = <<>>

\* C26 witness: two threads checked the same violating query at the same
\* time and the log holds the event of each
C26_Witness ==
    /\ AllChecksFinished
    /\ safety_events = 1
    /\ log_events
    /\ Cardinality(ViolatingThreads) >= 2
    /\ th_query[1] = th_query[2]
    /\ Len(CurrentLog) >= 2
    /\ CurrentLog[1] = CurrentLog[2]

\* C27: in every reachable state of the log, each event's safe flag is false
\* exactly when the event is an input event or its severity summary counts
\* at least one high violation; every event has violation_count >= 1, and
\* its high, medium and low counts sum to violation_count.
C27_EventFlagsAndCounts ==
    \A i \in 1..Len(CurrentLog) :
        LET e == CurrentLog[i] IN
        /\ ~e.safe <=> (e.type = "input" \/ e.severity_summary.high >= 1)
        /\ e.violation_count >= 1
        /\ e.severity_summary.high + e.severity_summary.medium
               + e.severity_summary.low = e.violation_count

\* C27 witness: the log holds an input event and the event of a blocked
\* output with a high and a low violation
C27_Witness ==
    /\ \E i \in 1..Len(CurrentLog) : CurrentLog[i].type = "input" /\ ~CurrentLog[i].safe
    /\ \E i \in 1..Len(CurrentLog) :
           /\ CurrentLog[i].type = "output"
           /\ ~CurrentLog[i].safe
           /\ CurrentLog[i].severity_summary.high >= 1
           /\ CurrentLog[i].severity_summary.low >= 1

\* self.results and self.errors hold what the run under way has handled so
\* far and nothing else
ListsOfThisRun ==
    /\ Len(results) = ev_i
    /\ \A i \in 1..Len(results) : results[i].query = testCases[i].query
    /\ Len(errors) = Len(Failed(results))
    /\ \A i \in 1..Len(errors) :
           \E j \in 1..Len(testCases) : errors[i].query_id = testCases[j].id

\* C28: successive evaluate_system runs on one evaluator do not accumulate
\* state: the results and errors of an earlier run are discarded at the
\* start of the next run, so each report's counts and statistics depend only
\* on that run's test cases.
C28_RunsDoNotAccumulate ==
    /\ ev_pc \in {"loop", "done"} => ListsOfThisRun
    /\ (ev_pc = "done" /\ ~report.is_error)
       => /\ report.detailed_results = results
          /\ report.summary.total_queries = Len(testCases)
          /\ report.summary.successful + report.summary.failed = Len(testCases)
          /\ report.error_analysis.total_errors = Len(Failed(results))
          /\ report.scores.combined.count = Len(Successful(results))

\* C28 witness: the second run on the evaluator reported on its single test
\* case
C28_Witness ==
    /\ ev_runs = 2
    /\ ev_pc = "done"
    /\ ~report.is_error
    /\ Len(testCases) = 1
    /\ report.summary.total_queries = 1
    /\ report.summary.successful = 1

\* C29: in multi-perspective aggregation every successful record
\* contributes to all three score streams: the count of the academic and of
\* the practical score distribution equals the count of the combined
\* distribution, for any per-record scores in [0,1], 0 included.
C29_AllStreamsCountEveryRecord ==
    (ev_pc = "done" /\ ~report.is_error /\ report.summary.successful >= 1)
    => /\ report.scores.academic.has_count
       /\ report.scores.practical.has_count
       /\ report.scores.academic.count = report.scores.combined.count
       /\ report.scores.practical.count = report.scores.combined.count

\* C30: after any sequence of queries in one UI session with no reset, the
\* session's safety-event count equals the number of events in the
\* SafetyManager's log: each logged event is counted exactly once.
C30_SessionCountsEachEventOnce ==
    (pc = "idle" /\ query_count = nQueries)
    => safety_events_count = Len(CurrentLog)
====
